---------------------------- MODULE Spec2Model ----------------------------
(***************************************************************************)
(* A model of kernel.c: the freestanding kernel (timer and keyboard        *)
(* interrupts, diffed text-mode frame store) and the tetris game it runs.  *)
(*                                                                         *)
(* The module holds several specifications over one set of variables:      *)
(*   Spec       the game: main(), tetris() and the two interrupt handlers  *)
(*   SpecFrame  the game with the text screen it draws, on short runs      *)
(*   SpecPiece  the piece operations (create, move, rotate) on a grid      *)
(*   SpecKeyb   read_keyb statement by statement against keyb_handler_c    *)
(* Each specification leaves the variables of the other parts unchanged.   *)
(***************************************************************************)
EXTENDS Integers, Sequences, FiniteSets, TLC

(***************************************************************************)
(* Program constants (kernel.c lines 265-292).                             *)
(***************************************************************************)
GRID_SIZE_X == 10
GRID_SIZE_Y == 20
PIECE_TYPES == 7

PIECE_LINE == 0
PIECE_L == 1
PIECE_REVERSE_L == 2
PIECE_SQUARE == 3
PIECE_5 == 4
PIECE_S == 5
PIECE_T == 6

MOVE_DOWN == 0
MOVE_LEFT == 1
MOVE_RIGHT == 2

SPAWN_OFFSET_X == 4

STATE_CREATE_PIECE == 0
STATE_DESCEND == 1
STATE_ROW_FLASH == 2
STATE_ROW_REMOVE == 3
STATE_GAME_OVER == 4
STATE_PAUSED == 5

INITIAL_FALL_DELAY == 90
DROP_FALL_DELAY == 0
FLASH_DELAY == 10        \* if (timediff > 10)
FLASH_CYCLES == 4        \* if (flash_lines_count < 4)

LINES_MAX == 9999        \* if (lines > 9999)
SCORE_MAX == 99999999    \* if (score > 99999999)
LEVEL_MAX == 9           \* if (level != 9 && ...)
LEVEL_LINES == 10        \* lines >= (level * 10) + 10
LEVEL_SPEEDUP == 10      \* fall_delay -= 10

NO_LINE == -1            \* remove_lines[i] == -1
NO_NEXT == -1            \* next == -1

\* uint64_t arithmetic is modulo 2^64; the model keeps the wrap-around of
\* now - last_move at a width TLC's integers can hold.
TICK_MOD == 1073741824   \* 2^30

\* The target's word (-m32) is half the counter: 2^15 where the counter has
\* 2^30 values.
WORD_MOD == 32768

\* The characters the key switch of tetris() tests.
CH_a == 97
CH_d == 100
CH_w == 119
CH_s == 115
CH_q == 113
CH_p == 112
CH_r == 114

RELEASE_BIT == 128       \* 0x80
CODE_MASK == 127         \* 0x7F
TABLE_SIZE == 128        \* scancode_table[128]

\* The text screen: 25 rows of 80 cells, a cell an attribute byte and a
\* character byte.
SCREEN_COLS == 80
SCREEN_ROWS == 25
SCREEN_CELLS == 2000     \* curr_frame[2000], next_frame[2000]

ATTR_GREY == 1792        \* 0x0700
ATTR_WHITE == 3840       \* 0x0F00
ATTR_RED == 1024         \* 0x0400
ATTR_GREEN == 512        \* 0x0200
ATTR_BLUE == 256         \* 0x0100

HASH == 35               \* '#'
BLANK == 32              \* ' '
CH_0 == 48               \* '0', numbers[0]
LOW_BYTE == 255          \* 0x00FF
KEEP_BLANK == 65312      \* 0xFF20

\* The strings tetris() puts on the screen, as character codes.
STR_NEXT == <<78, 69, 88, 84, 58>>                         \* "NEXT:"
STR_LINES == <<76, 73, 78, 69, 83, 58>>                    \* "LINES:"
STR_LEVEL == <<76, 69, 86, 69, 76, 58>>                    \* "LEVEL:"
STR_SCORE == <<83, 67, 79, 82, 69, 58>>                    \* "SCORE:"
STR_CONTROLS == <<67, 79, 78, 84, 82, 79, 76, 83>>         \* "CONTROLS"
STR_LEFT == <<97, 32, 45, 32, 76, 101, 102, 116>>          \* "a - Left"
STR_RIGHT == <<100, 32, 45, 32, 82, 105, 103, 104, 116>>   \* "d - Right"
STR_DROP == <<115, 32, 45, 32, 68, 114, 111, 112>>         \* "s - Drop"
STR_ROTATE == <<119, 32, 45, 32, 82, 111, 116, 97, 116, 101>>
                                                           \* "w - Rotate"
STR_PAUSE == <<112, 32, 45, 32, 80, 97, 117, 115, 101>>    \* "p - Pause"
STR_RESTART == <<114, 32, 45, 32, 82, 101, 115, 116, 97, 114, 116>>
                                                           \* "r - Restart"
STR_HALT == <<113, 32, 45, 32, 72, 97, 108, 116, 32, 67, 80, 85>>
                                                           \* "q - Halt CPU"
STR_GAME_OVER == <<71, 65, 77, 69, 32, 79, 86, 69, 82>>    \* "GAME OVER"
STR_PAUSED == <<80, 65, 85, 83, 69, 68>>                   \* "PAUSED"
STR_UNPAUSED == <<32, 32, 32, 32, 32, 32>>                 \* "      "
STR_CPU_HALTED == <<67, 80, 85, 32, 72, 65, 76, 84, 69, 68>>
                                                           \* "CPU HALTED"

\* static const char scancode_table[128]: entry i of the code is entry
\* i + 1 here; the entries the initialiser leaves out are 0.
scancode_table ==
    <<0, 27, 49, 50, 51, 52, 53, 54, 55, 56, 57, 48, 45, 61, 8,
      9, 113, 119, 101, 114, 116, 121, 117, 105, 111, 112, 91, 93, 10, 0,
      97, 115, 100, 102, 103, 104, 106, 107, 108, 59, 39, 96, 0, 92,
      122, 120, 99, 118, 98, 110, 109, 44, 46, 47, 0, 42, 0, 32>>

\* short block_colours[PIECE_TYPES], filled in at the top of tetris().
block_colours ==
    [p \in 0..(PIECE_TYPES - 1) |->
        CASE p = 0 -> 1792   \* 0x0700 light gray
          [] p = 1 -> 1024   \* 0x0400 red
          [] p = 2 -> 512    \* 0x0200 green
          [] p = 3 -> 256    \* 0x0100 blue
          [] p = 4 -> 1280   \* 0x0500 magenta
          [] p = 5 -> 3584   \* 0x0E00 yellow
          [] p = 6 -> 768]   \* 0x0300 cyan

VARIABLES
    \* the interrupt side
    scancode,       \* uint8_t scancode: the pending key slot
    keyb_char,      \* char keyb_char
    keyb_pressed,   \* char keyb_pressed
    ticks_count,    \* volatile uint64_t ticks_count
    \* the locals of tetris()
    quit, pause, left, right, up, down, key_pressed, down_pressed,
    state,          \* int state: STATE_...
    flash_lines_count,
    lines, level, score,
    lines_removed,  \* int lines_removed: what do_remove_lines returned
    fall_delay,
    grid,           \* int grid[GRID_SIZE_X][GRID_SIZE_Y]
    tetrominoe,     \* int tetrominoe[4][2]: <<x, y>> of each of the 4 cells
    current,        \* int current: type of the active piece
    next,           \* int next: type of the piece to come, -1 for none
    remove_lines,   \* int remove_lines[4]: row indices, -1 for none
    last_move,      \* uint64_t last_move
    \* where the processor is, and the history the properties refer to
    pc,             \* "run" in the loop body, "hlt" at hlt, "halted" after q
    session,        \* calls of tetris() so far
    timer_irqs,     \* timer interrupts so far
    keyb_irqs,      \* keyboard interrupts so far
    last_call,      \* the call the last step made, with what it returned
    rot_from,       \* the placement before the current run of rotations
    rot_n,          \* accepted rotations in a row since rot_from
    acts,           \* per key: the sessions of the actions it caused since
                    \* its release was last polled
    \* the text screen
    VGA,            \* the display device, unsigned short VGA[2000]
    curr_frame,     \* short curr_frame[2000]: the frame shown
    next_frame,     \* short next_frame[2000]: the frame desired
    flush,          \* the last draw_next_frame: what it found and wrote
    \* read_keyb in progress
    poll,           \* what the running read_keyb has read so far
    slot_event,     \* the keyboard interrupt whose code scancode holds
    lost,           \* the interrupts whose code read_keyb erased unread
    \* the interrupt controller and the processor's interrupt flag
    irq_handlers,   \* irq_handler_t irq_handlers[16]
    interrupts,     \* the interrupt flag: 1 after sti, 0 after cli
    in_service,     \* the lines dispatched and not acknowledged since
    \* now = ticks_count in progress
    tick_read       \* what the read has loaded so far, and what it yielded

irqVars == <<scancode, keyb_char, keyb_pressed, ticks_count>>
keyVars == <<quit, pause, left, right, up, down, key_pressed, down_pressed>>
scoreVars == <<lines, level, score, lines_removed, fall_delay>>
pieceVars == <<grid, tetrominoe, current>>
lineVars == <<state, flash_lines_count, next, remove_lines, last_move>>
runVars == <<pc, session, timer_irqs, keyb_irqs>>
ghostVars == <<last_call, rot_from, rot_n, acts>>
frameVars == <<VGA, curr_frame, next_frame, flush>>
pollVars == <<poll, slot_event, lost>>
picVars == <<irq_handlers, interrupts, in_service>>
vars == <<irqVars, keyVars, scoreVars, pieceVars, lineVars, runVars, ghostVars,
          frameVars, pollVars, picVars, tick_read>>

Cols == 0..(GRID_SIZE_X - 1)
Rows == 0..(GRID_SIZE_Y - 1)

\* grid[x][y] of the code is g[x + 1][y + 1] here: a grid is the tuple of its
\* GRID_SIZE_X columns, a column the tuple of its GRID_SIZE_Y cells.
At(g, x, y) == g[x + 1][y + 1]

EmptyColumn == <<0, 0, 0, 0, 0, 0, 0, 0, 0, 0, 0, 0, 0, 0, 0, 0, 0, 0, 0, 0>>

EmptyGrid ==
    <<EmptyColumn, EmptyColumn, EmptyColumn, EmptyColumn, EmptyColumn,
      EmptyColumn, EmptyColumn, EmptyColumn, EmptyColumn, EmptyColumn>>

\* The set of grid cells a placement covers.
Cells(t) == {t[i] : i \in 1..4}

(***************************************************************************)
(* check_tetrominoe_collision: 1 (TRUE) when the placement is legal.       *)
(* The bounds are tested before the grid is indexed, as && does in C.      *)
(***************************************************************************)
check_tetrominoe_collision(t, g) ==
    /\ \A i \in 1..4 : /\ t[i][1] >= 0 /\ t[i][1] < GRID_SIZE_X
                       /\ t[i][2] >= 0 /\ t[i][2] < GRID_SIZE_Y
    /\ \A i \in 1..4 : At(g, t[i][1], t[i][2]) = 0

(***************************************************************************)
(* setup_tetrominoe: the spawn shape of each piece type.  A type outside   *)
(* 0..6 matches no case and leaves the array as it was.                    *)
(***************************************************************************)
setup_tetrominoe(t, piece, offset_x) ==
    LET o == offset_x IN
    CASE piece = PIECE_LINE ->
            <<<<o + 0, 1>>, <<o + 1, 1>>, <<o + 2, 1>>, <<o + 3, 1>>>>
      [] piece = PIECE_L ->
            <<<<o + 0, 0>>, <<o + 2, 1>>, <<o + 1, 0>>, <<o + 2, 0>>>>
      [] piece = PIECE_REVERSE_L ->
            <<<<o + 0, 0>>, <<o + 0, 1>>, <<o + 1, 0>>, <<o + 2, 0>>>>
      [] piece = PIECE_SQUARE ->
            <<<<o + 1, 0>>, <<o + 2, 0>>, <<o + 1, 1>>, <<o + 2, 1>>>>
      [] piece = PIECE_5 ->
            <<<<o + 1, 0>>, <<o + 2, 0>>, <<o + 0, 1>>, <<o + 1, 1>>>>
      [] piece = PIECE_S ->
            <<<<o + 0, 0>>, <<o + 1, 0>>, <<o + 1, 1>>, <<o + 2, 1>>>>
      [] piece = PIECE_T ->
            <<<<o + 0, 0>>, <<o + 1, 0>>, <<o + 2, 0>>, <<o + 1, 1>>>>
      [] OTHER -> t

\* grid[t[i][0]][t[i][1]] = v for i = 0..3, in order.
MarkCells(g, t, v) ==
    [g EXCEPT ![t[1][1] + 1][t[1][2] + 1] = v, ![t[2][1] + 1][t[2][2] + 1] = v,
              ![t[3][1] + 1][t[3][2] + 1] = v, ![t[4][1] + 1][t[4][2] + 1] = v]

\* The mutant of create_tetrominoe: the spawn cells are marked without the
\* collision rule being asked, and the call always reports success.
create_unchecked(t, g, piece) ==
    LET s == setup_tetrominoe(t, piece, SPAWN_OFFSET_X) IN
    [ret |-> 1, t |-> s,
     g |-> [x \in 1..GRID_SIZE_X |-> [y \in 1..GRID_SIZE_Y |->
              IF <<x - 1, y - 1>> \in Cells(s) THEN block_colours[piece]
              ELSE g[x][y]]]]

(***************************************************************************)
(* create_tetrominoe: [ret, t, g].                                         *)
(***************************************************************************)
create_tetrominoe(t, g, piece) ==
    LET s == setup_tetrominoe(t, piece, SPAWN_OFFSET_X) IN
    IF check_tetrominoe_collision(s, g)
    THEN [ret |-> 1, t |-> s, g |-> MarkCells(g, s, block_colours[piece])]
    ELSE [ret |-> 0, t |-> s, g |-> g]

\* The candidate placement move_tetrominoe computes for a direction.
MoveCandidate(t, direction) ==
    CASE direction = MOVE_DOWN ->
            <<<<t[1][1], t[1][2] + 1>>, <<t[2][1], t[2][2] + 1>>,
              <<t[3][1], t[3][2] + 1>>, <<t[4][1], t[4][2] + 1>>>>
      [] direction = MOVE_LEFT ->
            <<<<t[1][1] - 1, t[1][2]>>, <<t[2][1] - 1, t[2][2]>>,
              <<t[3][1] - 1, t[3][2]>>, <<t[4][1] - 1, t[4][2]>>>>
      [] direction = MOVE_RIGHT ->
            <<<<t[1][1] + 1, t[1][2]>>, <<t[2][1] + 1, t[2][2]>>,
              <<t[3][1] + 1, t[3][2]>>, <<t[4][1] + 1, t[4][2]>>>>
      [] OTHER -> t

\* The mutant of CommitOrRestore: a rejected candidate is committed anyway
\* when it lies inside the grid.
CommitAlways(t, g, cand) ==
    LET block_colour == At(g, t[1][1], t[1][2])
        cleared == MarkCells(g, t, 0)
        inside == \A i \in 1..4 : cand[i][1] \in Cols /\ cand[i][2] \in Rows
        ok == check_tetrominoe_collision(cand, cleared)
        nt == IF inside THEN cand ELSE t
    IN [ok |-> ok, t |-> nt, g |-> MarkCells(cleared, nt, block_colour)]

\* The mutant of CommitOrRestore: the cells of a piece whose candidate was
\* rejected are left cleared.
CommitOrForget(t, g, cand) ==
    LET block_colour == At(g, t[1][1], t[1][2])
        cleared == MarkCells(g, t, 0)
        ok == check_tetrominoe_collision(cand, cleared)
    IN [ok |-> ok, t |-> IF ok THEN cand ELSE t,
        g |-> IF ok THEN MarkCells(cleared, cand, block_colour) ELSE cleared]

(***************************************************************************)
(* The tail shared by move_tetrominoe (465-480) and rotate_tetrominoe      *)
(* (562-576): remember the colour of cell 0, clear the piece's own cells,  *)
(* test the candidate, commit it if legal, mark the cells of whichever     *)
(* placement the piece now has.                                            *)
(***************************************************************************)
CommitOrRestore(t, g, cand) ==
    LET block_colour == At(g, t[1][1], t[1][2])
        cleared == MarkCells(g, t, 0)
        ok == check_tetrominoe_collision(cand, cleared)
        nt == IF ok THEN cand ELSE t
    IN [ok |-> ok, t |-> nt, g |-> MarkCells(cleared, nt, block_colour)]

\* move_tetrominoe: [ret (moved), t, g].
move_tetrominoe(t, g, direction) ==
    LET r == CommitOrRestore(t, g, MoveCandidate(t, direction))
    IN [ret |-> IF r.ok THEN 1 ELSE 0, t |-> r.t, g |-> r.g]

Min4(a, b, c, d) ==
    LET m1 == IF a > b THEN b ELSE a
        m2 == IF m1 > c THEN c ELSE m1
    IN IF m2 > d THEN d ELSE m2

\* max_ext of rotate_tetrominoe's switch (514-542).
MaxExt(type) ==
    CASE type = PIECE_LINE -> 4
      [] type = PIECE_SQUARE -> 2
      [] OTHER -> 3

\* The mutant of RotateCandidate: the rotated shape is anchored one row
\* above the topmost row of the old one.
RotateCandidateLifted(t, type) ==
    LET lowest_x == Min4(t[1][1], t[2][1], t[3][1], t[4][1])
        lowest_y == Min4(t[1][2], t[2][2], t[3][2], t[4][2]) - 1
        max_ext == MaxExt(type)
        NewCell(c) ==
            <<(c[2] - (lowest_y + 1)) + lowest_x,
              (1 - ((c[1] - lowest_x) - (max_ext - 2))) + lowest_y>>
    IN <<NewCell(t[1]), NewCell(t[2]), NewCell(t[3]), NewCell(t[4])>>

\* The candidate placement rotate_tetrominoe computes (495-560).
RotateCandidate(t, type) ==
    LET lowest_x == Min4(t[1][1], t[2][1], t[3][1], t[4][1])
        lowest_y == Min4(t[1][2], t[2][2], t[3][2], t[4][2])
        max_ext == MaxExt(type)
        NewCell(c) ==
            <<(c[2] - lowest_y) + lowest_x,
              (1 - ((c[1] - lowest_x) - (max_ext - 2))) + lowest_y>>
    IN <<NewCell(t[1]), NewCell(t[2]), NewCell(t[3]), NewCell(t[4])>>

\* rotate_tetrominoe: [ok (candidate accepted), t, g]; the C function
\* returns nothing.
rotate_tetrominoe(t, g, type) ==
    CommitOrRestore(t, g, RotateCandidate(t, type))


(***************************************************************************)
(* Bitwise and / or of two non-negative ints, as C's & and | compute them. *)
(***************************************************************************)
RECURSIVE BitAnd(_, _)
BitAnd(a, b) ==
    IF a = 0 \/ b = 0 THEN 0
    ELSE ((a % 2) * (b % 2)) + 2 * BitAnd(a \div 2, b \div 2)

RECURSIVE BitOr(_, _)
BitOr(a, b) ==
    IF a = 0 THEN b
    ELSE IF b = 0 THEN a
    ELSE (IF a % 2 = 1 \/ b % 2 = 1 THEN 1 ELSE 0)
            + 2 * BitOr(a \div 2, b \div 2)

NoLines == <<NO_LINE, NO_LINE, NO_LINE, NO_LINE>>

\* The mutant of RowComplete: the bottom row is never found complete (the
\* scan of the rows stops one short).
RowCompleteButBottom(g, y) ==
    /\ y # GRID_SIZE_Y - 1
    /\ \A x \in Cols : At(g, x, y) # 0

\* The inner loop of get_remove_lines (584-588): the row is recorded unless
\* a zero cell sends the scan to next_line.
RowComplete(g, y) ==
    \A x \in Cols : At(g, x, y) # 0

(***************************************************************************)
(* get_remove_lines: [rl, count, overrun].  remove_lines[i] of the code is *)
(* rl[i + 1] here.  A fifth complete row is stored past the end of         *)
(* int remove_lines[4]: overrun records that such a store happened.        *)
(***************************************************************************)
RECURSIVE GetRemoveLinesFrom(_, _, _, _, _)
GetRemoveLinesFrom(g, rl, remove_count, overrun, y) ==
    IF y = GRID_SIZE_Y
    THEN [rl |-> rl, count |-> remove_count, overrun |-> overrun]
    ELSE IF RowComplete(g, y)
    THEN IF remove_count < 4
         THEN GetRemoveLinesFrom(g, [rl EXCEPT ![remove_count + 1] = y],
                                 remove_count + 1, overrun, y + 1)
         ELSE GetRemoveLinesFrom(g, rl, remove_count + 1, TRUE, y + 1)
    ELSE GetRemoveLinesFrom(g, rl, remove_count, overrun, y + 1)

get_remove_lines(g, rl) == GetRemoveLinesFrom(g, rl, 0, FALSE, 0)

\* The mutant of CycleCell: the marker is set and never taken off again.
CycleCellSetsOnly(v) == BitOr(v, HASH)

\* One cell of cycle_remove_lines (606-610).
CycleCell(v) ==
    IF BitAnd(v, LOW_BYTE) = HASH THEN BitAnd(v, KEEP_BLANK)
    ELSE BitOr(v, HASH)

\* for (x = 0; x < GRID_SIZE_X; x++) grid[x][y] = Op(grid[x]): one store
\* in each column, none reading another column.
EachColumn(Op(_), g) ==
    <<Op(g[1]), Op(g[2]), Op(g[3]), Op(g[4]), Op(g[5]),
      Op(g[6]), Op(g[7]), Op(g[8]), Op(g[9]), Op(g[10])>>

\* "Cycle the line" (605-611).
CycleRow(g, y) ==
    LET Op(col) == [col EXCEPT ![y + 1] = CycleCell(col[y + 1])]
    IN EachColumn(Op, g)

\* cycle_remove_lines: the grid after slots i..3 were cycled.
RECURSIVE CycleRemoveLinesFrom(_, _, _)
CycleRemoveLinesFrom(g, rl, i) ==
    IF i = 4 THEN g
    ELSE IF rl[i + 1] = NO_LINE THEN CycleRemoveLinesFrom(g, rl, i + 1)
    ELSE CycleRemoveLinesFrom(CycleRow(g, rl[i + 1]), rl, i + 1)

cycle_remove_lines(g, rl) == CycleRemoveLinesFrom(g, rl, 0)

\* "Remove the line" (625-627).
ClearRow(g, y) ==
    LET Op(col) == [col EXCEPT ![y + 1] = 0]
    IN EachColumn(Op, g)

\* "Move above lines down" (630-634): for (y = r; y != 0; y--)
\* grid[x][y] = grid[x][y-1].  y runs downwards, so every row read is still
\* the old one: rows 1..r receive the old rows 0..r-1, and row 0 is never
\* written.
MoveAboveDown(g, r) ==
    LET Op(col) ==
            <<col[1]>> \o SubSeq(col, 1, r) \o SubSeq(col, r + 2, GRID_SIZE_Y)
    IN EachColumn(Op, g)

(***************************************************************************)
(* do_remove_lines: [g, rl, count].                                        *)
(***************************************************************************)
RECURSIVE DoRemoveLinesFrom(_, _, _, _)
DoRemoveLinesFrom(g, rl, remove_count, i) ==
    IF i = 4 THEN [g |-> g, rl |-> rl, count |-> remove_count]
    ELSE IF rl[i + 1] = NO_LINE
    THEN DoRemoveLinesFrom(g, rl, remove_count, i + 1)
    ELSE DoRemoveLinesFrom(
            MoveAboveDown(ClearRow(g, rl[i + 1]), rl[i + 1]),
            [rl EXCEPT ![i + 1] = NO_LINE], remove_count + 1, i + 1)

\* The mutant of do_remove_lines: the row of the first slot is left alone.
do_remove_lines_from_second(g, rl) == DoRemoveLinesFrom(g, rl, 0, 1)

do_remove_lines(g, rl) == DoRemoveLinesFrom(g, rl, 0, 0)

(***************************************************************************)
(* read_keyb run without a keyboard interrupt in between: what it leaves   *)
(* in keyb_char and keyb_pressed for a slot holding sc.  It always leaves  *)
(* the slot 0.  (SpecKeyb below takes it statement by statement.)          *)
(***************************************************************************)
\* scancode_table[code] for an index inside the table.
TableChar(code) ==
    IF code + 1 <= Len(scancode_table) THEN scancode_table[code + 1] ELSE 0

read_keyb(sc) ==
    LET released == BitAnd(sc, RELEASE_BIT) # 0
        code == IF released THEN BitAnd(sc, CODE_MASK) ELSE sc
    IN [keyb_char |-> IF code > 0 /\ code <= 127 THEN TableChar(code) ELSE 0,
        keyb_pressed |-> IF released THEN 0 ELSE 1]

\* int rand(): return ticks_count, and the "% 7" of both its callers.
RandPiece(ticks) == ticks % 7

(***************************************************************************)
(* tetris(): the locals as a record, named as in the code.                 *)
(***************************************************************************)
Locals ==
    [quit |-> quit, pause |-> pause, left |-> left, right |-> right,
     up |-> up, down |-> down, key_pressed |-> key_pressed,
     down_pressed |-> down_pressed, state |-> state,
     flash_lines_count |-> flash_lines_count, lines |-> lines,
     level |-> level, score |-> score, lines_removed |-> lines_removed,
     fall_delay |-> fall_delay, grid |-> grid, tetrominoe |-> tetrominoe,
     current |-> current, next |-> next, remove_lines |-> remove_lines,
     last_move |-> last_move]

LocalsAre(r) ==
    /\ quit = r.quit /\ pause = r.pause /\ left = r.left /\ right = r.right
    /\ up = r.up /\ down = r.down /\ key_pressed = r.key_pressed
    /\ down_pressed = r.down_pressed /\ state = r.state
    /\ flash_lines_count = r.flash_lines_count /\ lines = r.lines
    /\ level = r.level /\ score = r.score
    /\ lines_removed = r.lines_removed /\ fall_delay = r.fall_delay
    /\ grid = r.grid /\ tetrominoe = r.tetrominoe /\ current = r.current
    /\ next = r.next /\ remove_lines = r.remove_lines
    /\ last_move = r.last_move

SetLocals(r) ==
    /\ quit' = r.quit /\ pause' = r.pause /\ left' = r.left
    /\ right' = r.right /\ up' = r.up /\ down' = r.down
    /\ key_pressed' = r.key_pressed /\ down_pressed' = r.down_pressed
    /\ state' = r.state /\ flash_lines_count' = r.flash_lines_count
    /\ lines' = r.lines /\ level' = r.level /\ score' = r.score
    /\ lines_removed' = r.lines_removed /\ fall_delay' = r.fall_delay
    /\ grid' = r.grid /\ tetrominoe' = r.tetrominoe /\ current' = r.current
    /\ next' = r.next /\ remove_lines' = r.remove_lines
    /\ last_move' = r.last_move

(***************************************************************************)
(* tetris() from its first line to the top of the main loop (671-795).     *)
(* last_move, lines_removed and tetrominoe are not initialised: garbage    *)
(* is what the stack holds for last_move, old is what it holds for the     *)
(* other two (both are written before they are read).                      *)
(***************************************************************************)
tetris_entry_without_piece(ticks, garbage, old) ==
    [quit |-> 0, pause |-> 0, left |-> 0, right |-> 0, up |-> 0,
     down |-> 0, key_pressed |-> 0, down_pressed |-> 0,
     state |-> STATE_DESCEND, flash_lines_count |-> 0, lines |-> 0,
     level |-> 0, score |-> 0, lines_removed |-> old.lines_removed,
     fall_delay |-> INITIAL_FALL_DELAY, grid |-> EmptyGrid,
     tetrominoe |-> old.tetrominoe, current |-> RandPiece(ticks),
     next |-> NO_NEXT, remove_lines |-> NoLines, last_move |-> garbage]

tetris_entry(ticks, garbage, old) ==
    LET piece == RandPiece(ticks)
        c == create_tetrominoe(old.tetrominoe, EmptyGrid, piece)
    IN [quit |-> 0, pause |-> 0, left |-> 0, right |-> 0, up |-> 0,
        down |-> 0, key_pressed |-> 0, down_pressed |-> 0,
        state |-> STATE_DESCEND, flash_lines_count |-> 0, lines |-> 0,
        level |-> 0, score |-> 0, lines_removed |-> old.lines_removed,
        fall_delay |-> INITIAL_FALL_DELAY, grid |-> c.g,
        tetrominoe |-> c.t, current |-> piece, next |-> NO_NEXT,
        remove_lines |-> NoLines, last_move |-> garbage]

(***************************************************************************)
(* The body of the main loop (799-975), a step at a time; s is the record  *)
(* of the locals.                                                          *)
(***************************************************************************)
\* switch (keyb_char) (801-824), but for case 'r' (see Restarts).
key_switch(s, kc, kp) ==
    LET on == IF kp # 0 THEN 1 ELSE 0 IN
    CASE kc = CH_a -> [s EXCEPT !.left = on]
      [] kc = CH_d -> [s EXCEPT !.right = on]
      [] kc = CH_w -> [s EXCEPT !.up = on]
      [] kc = CH_s -> [s EXCEPT !.down = on]
      [] kc = CH_q -> [s EXCEPT !.quit = on]
      [] kc = CH_p -> [s EXCEPT !.pause = on]
      [] OTHER -> s

\* case 'r': if (keyb_pressed) return;
Restarts(kc, kp) == kc = CH_r /\ kp # 0

\* if (next == -1) ... (826-829); next_grid and next_tetrominoe only feed
\* the preview on the screen.
roll_next(s, ticks) ==
    IF s.next = NO_NEXT THEN [s EXCEPT !.next = RandPiece(ticks)] ELSE s

\* The mutant of release_keys: a held pause key does not keep key_pressed.
release_keys_but_pause(s) ==
    LET s1 == IF s.left = 0 /\ s.right = 0 /\ s.up = 0 /\ s.down = 0
              THEN [s EXCEPT !.key_pressed = 0] ELSE s
    IN IF s1.down = 0 THEN [s1 EXCEPT !.down_pressed = 0] ELSE s1

\* 831-837.
release_keys(s) ==
    LET s1 == IF s.left = 0 /\ s.right = 0 /\ s.up = 0 /\ s.down = 0
                 /\ s.pause = 0
              THEN [s EXCEPT !.key_pressed = 0] ELSE s
    IN IF s1.down = 0 THEN [s1 EXCEPT !.down_pressed = 0] ELSE s1

\* The mutant of handle_input: the keys act whatever the state is.
handle_input_any_state(s) ==
    IF /\ s.state # STATE_PAUSED
       /\ s.key_pressed = 0
       /\ (s.left # 0 \/ s.right # 0 \/ s.up # 0 \/ s.down # 0 \/ s.pause # 0)
    THEN LET m1 == IF s.left # 0
                   THEN move_tetrominoe(s.tetrominoe, s.grid, MOVE_LEFT)
                   ELSE [ret |-> 0, t |-> s.tetrominoe, g |-> s.grid]
             m2 == IF s.right # 0
                   THEN move_tetrominoe(m1.t, m1.g, MOVE_RIGHT)
                   ELSE m1
             m3 == IF s.up # 0
                   THEN rotate_tetrominoe(m2.t, m2.g, s.current)
                   ELSE [ok |-> FALSE, t |-> m2.t, g |-> m2.g]
         IN [s EXCEPT !.tetrominoe = m3.t,
                      !.grid = m3.g,
                      !.down_pressed = IF s.down # 0 THEN 1 ELSE @,
                      !.state = IF s.pause # 0 THEN STATE_PAUSED ELSE @,
                      !.key_pressed = 1]
    ELSE IF s.state = STATE_PAUSED /\ s.key_pressed = 0 /\ s.pause # 0
    THEN [s EXCEPT !.state = STATE_DESCEND, !.key_pressed = 1]
    ELSE s

\* 839-852.
handle_input(s) ==
    IF /\ s.state = STATE_DESCEND
       /\ s.key_pressed = 0
       /\ (s.left # 0 \/ s.right # 0 \/ s.up # 0 \/ s.down # 0 \/ s.pause # 0)
    THEN LET m1 == IF s.left # 0
                   THEN move_tetrominoe(s.tetrominoe, s.grid, MOVE_LEFT)
                   ELSE [ret |-> 0, t |-> s.tetrominoe, g |-> s.grid]
             m2 == IF s.right # 0
                   THEN move_tetrominoe(m1.t, m1.g, MOVE_RIGHT)
                   ELSE m1
             m3 == IF s.up # 0
                   THEN rotate_tetrominoe(m2.t, m2.g, s.current)
                   ELSE [ok |-> FALSE, t |-> m2.t, g |-> m2.g]
         IN [s EXCEPT !.tetrominoe = m3.t,
                      !.grid = m3.g,
                      !.down_pressed = IF s.down # 0 THEN 1 ELSE @,
                      !.state = IF s.pause # 0 THEN STATE_PAUSED ELSE @,
                      !.key_pressed = 1]
    ELSE IF s.state = STATE_PAUSED /\ s.key_pressed = 0 /\ s.pause # 0
    THEN [s EXCEPT !.state = STATE_DESCEND, !.key_pressed = 1]
    ELSE s

\* The mutant of ScoreFor: the level that counts is the one after the
\* level advance of the step.
ScoreForNextLevel(removed, lvl) ==
    LET l == IF lvl # LEVEL_MAX THEN lvl + 1 ELSE lvl IN
    CASE removed = 1 -> 40 * (l + 1)
      [] removed = 2 -> 100 * (l + 1)
      [] removed = 3 -> 300 * (l + 1)
      [] removed = 4 -> 1200 * (l + 1)
      [] OTHER -> 0

\* switch (lines_removed) (906-922): what is added to score.
ScoreFor(removed, lvl) ==
    CASE removed = 1 -> 40 * (lvl + 1)
      [] removed = 2 -> 100 * (lvl + 1)
      [] removed = 3 -> 300 * (lvl + 1)
      [] removed = 4 -> 1200 * (lvl + 1)
      [] OTHER -> 0

\* The mutant of CapLines: the line count wraps to 0 past its maximum.
CapLinesWraps(n) == IF n > LINES_MAX THEN 0 ELSE n

\* if (lines > 9999) { lines = 9999; }
CapLines(n) == IF n > LINES_MAX THEN LINES_MAX ELSE n

\* if (score > 99999999) { score = 99999999; }
CapScore(n) == IF n > SCORE_MAX THEN SCORE_MAX ELSE n

\* The mutant of row_remove: the level advances one line late.
row_remove_level_late(s) ==
    LET d == do_remove_lines(s.grid, s.remove_lines)
        lines1 == CapLines(s.lines + d.count)
        score1 == CapScore(s.score + ScoreFor(d.count, s.level))
        advance == s.level # LEVEL_MAX
                   /\ lines1 > (s.level * LEVEL_LINES) + LEVEL_LINES
    IN [s EXCEPT !.grid = d.g,
                 !.remove_lines = d.rl,
                 !.lines_removed = d.count,
                 !.lines = lines1,
                 !.score = score1,
                 !.level = IF advance THEN @ + 1 ELSE @,
                 !.fall_delay = IF advance THEN @ - LEVEL_SPEEDUP ELSE @,
                 !.state = STATE_CREATE_PIECE]

\* The mutant of row_remove: the step leaves the state at Descend.
row_remove_then_descend(s) ==
    LET d == do_remove_lines(s.grid, s.remove_lines)
        lines1 == CapLines(s.lines + d.count)
        score1 == CapScore(s.score + ScoreFor(d.count, s.level))
        advance == s.level # LEVEL_MAX
                   /\ lines1 >= (s.level * LEVEL_LINES) + LEVEL_LINES
    IN [s EXCEPT !.grid = d.g,
                 !.remove_lines = d.rl,
                 !.lines_removed = d.count,
                 !.lines = lines1,
                 !.score = score1,
                 !.level = IF advance THEN @ + 1 ELSE @,
                 !.fall_delay = IF advance THEN @ - LEVEL_SPEEDUP ELSE @,
                 !.state = STATE_DESCEND]

\* case STATE_ROW_REMOVE (900-937).
row_remove(s) ==
    LET d == do_remove_lines(s.grid, s.remove_lines)
        lines1 == CapLines(s.lines + d.count)
        score1 == CapScore(s.score + ScoreFor(d.count, s.level))
        advance == s.level # LEVEL_MAX
                   /\ lines1 >= (s.level * LEVEL_LINES) + LEVEL_LINES
    IN [s EXCEPT !.grid = d.g,
                 !.remove_lines = d.rl,
                 !.lines_removed = d.count,
                 !.lines = lines1,
                 !.score = score1,
                 !.level = IF advance THEN @ + 1 ELSE @,
                 !.fall_delay = IF advance THEN @ - LEVEL_SPEEDUP ELSE @,
                 !.state = STATE_CREATE_PIECE]

\* The else-if of 847: the pass that leaves STATE_PAUSED, which is the one
\* that blanks the PAUSED label.
Resumes(s) == s.state = STATE_PAUSED /\ s.key_pressed = 0 /\ s.pause # 0

\* switch (state) (857-948): [s, call], call being the call that decided
\* the step and what it returned.  STATE_GAME_OVER and STATE_PAUSED only
\* print their label.
NoCall == [fn |-> "none", arg |-> 0, ret |-> 0]

PrintCall(st) == [fn |-> "print_string", arg |-> st, ret |-> 0]

state_switch(s, now) ==
    LET timediff == (now - s.last_move) % TICK_MOD IN
    CASE s.state = STATE_CREATE_PIECE ->
            LET c == create_tetrominoe(s.tetrominoe, s.grid, s.next) IN
            [s |-> IF c.ret # 0
                   THEN [s EXCEPT !.tetrominoe = c.t, !.grid = c.g,
                                  !.current = s.next, !.next = NO_NEXT,
                                  !.state = STATE_DESCEND,
                                  !.down_pressed = 0]
                   ELSE [s EXCEPT !.tetrominoe = c.t,
                                  !.state = STATE_GAME_OVER],
             call |-> [fn |-> "create", arg |-> s.next, ret |-> c.ret]]
      [] s.state = STATE_DESCEND ->
            IF timediff > (IF s.down_pressed # 0 THEN DROP_FALL_DELAY
                           ELSE s.fall_delay)
            THEN LET m == move_tetrominoe(s.tetrominoe, s.grid, MOVE_DOWN) IN
                 IF m.ret = 0
                 THEN LET r == get_remove_lines(m.g, s.remove_lines) IN
                      [s |-> [s EXCEPT !.tetrominoe = m.t, !.grid = m.g,
                                       !.remove_lines = r.rl,
                                       !.state = IF r.count > 0
                                                 THEN STATE_ROW_FLASH
                                                 ELSE STATE_CREATE_PIECE,
                                       !.last_move = now],
                       call |-> [fn |-> "get_remove_lines",
                                 arg |-> r.overrun, ret |-> r.count]]
                 ELSE [s |-> [s EXCEPT !.tetrominoe = m.t, !.grid = m.g,
                                       !.last_move = now],
                       call |-> [fn |-> "move", arg |-> MOVE_DOWN,
                                 ret |-> m.ret]]
            ELSE [s |-> s, call |-> NoCall]
      [] s.state = STATE_ROW_FLASH ->
            IF timediff > FLASH_DELAY
            THEN IF s.flash_lines_count < FLASH_CYCLES
                 THEN [s |-> [s EXCEPT
                                !.grid = cycle_remove_lines(@, s.remove_lines),
                                !.flash_lines_count = @ + 1,
                                !.last_move = now],
                       call |-> [fn |-> "cycle_remove_lines", arg |-> 0,
                                 ret |-> 0]]
                 ELSE [s |-> [s EXCEPT !.flash_lines_count = 0,
                                       !.state = STATE_ROW_REMOVE,
                                       !.last_move = now],
                       call |-> NoCall]
            ELSE [s |-> s, call |-> NoCall]
      [] s.state = STATE_ROW_REMOVE ->
            LET r == row_remove(s) IN
            [s |-> r,
             call |-> [fn |-> "do_remove_lines", arg |-> 0,
                       ret |-> r.lines_removed]]
      [] s.state = STATE_GAME_OVER ->
            [s |-> s, call |-> PrintCall(STATE_GAME_OVER)]
      [] s.state = STATE_PAUSED ->
            [s |-> s, call |-> PrintCall(STATE_PAUSED)]
      [] OTHER -> [s |-> s, call |-> NoCall]

\* The keys whose flag makes the input handling of 839-852 act in a pass
\* that finds the locals s: every flag that is set in the first branch, the
\* pause flag in the second.
Acted(s) ==
    IF s.state = STATE_DESCEND /\ s.key_pressed = 0
    THEN {n \in {"left", "right", "up", "pause"} : s[n] # 0}
    ELSE IF Resumes(s) THEN {"pause"}
    ELSE {}

\* One pass of the loop body for a poll that delivered <<kc, kp>>:
\* [s, call, resumed, acted].
Passed(r, resumed, acted) ==
    [s |-> r.s, call |-> r.call, resumed |-> resumed, acted |-> acted]

PassFrom(s, ticks) ==
    Passed(state_switch(handle_input(s), ticks), Resumes(s), Acted(s))

loop_body(s, kc, kp, ticks) ==
    PassFrom(release_keys(roll_next(key_switch(s, kc, kp), ticks)), ticks)

(***************************************************************************)
(* The text screen.  VGA, curr_frame and next_frame are arrays of          *)
(* SCREEN_CELLS shorts; cell i is row i / 80, column i % 80.               *)
(***************************************************************************)
Screen == 0..(SCREEN_CELLS - 1)

\* a[row*80 + col + i] = colour | str[i] for every character of str.
PutString(a, str, colour, row, col) ==
    [i \in Screen |->
        IF i - ((row * SCREEN_COLS) + col) \in 0..(Len(str) - 1)
        THEN BitOr(colour, str[(i - ((row * SCREEN_COLS) + col)) + 1])
        ELSE a[i]]

\* print_string writes the device.
print_string(vga, str, colour, row, col) == PutString(vga, str, colour, row, col)

\* clear_screen: VGA after it.
CLEAR_CELL == BitOr(ATTR_GREY, BLANK)

clear_screen == [i \in Screen |-> CLEAR_CELL]

\* init_frame_store: curr_frame and next_frame after it.
init_frame_store == [i \in Screen |-> ATTR_GREY]

\* The mutant of draw_next_frame: the whole frame is written, not the
\* cells that differ.
draw_whole_frame(vga, curr, nxt) ==
    [VGA |-> [i \in Screen |-> nxt[i]],
     curr_frame |-> [i \in Screen |-> nxt[i]],
     written |-> Screen]

\* draw_next_frame: [VGA, curr_frame, written], written being the cells i
\* for which VGA[i] = ... was executed.
draw_next_frame(vga, curr, nxt) ==
    [VGA |-> [i \in Screen |-> IF curr[i] # nxt[i] THEN nxt[i] ELSE vga[i]],
     curr_frame |->
        [i \in Screen |-> IF curr[i] # nxt[i] THEN nxt[i] ELSE curr[i]],
     written |-> {i \in Screen : curr[i] # nxt[i]}]

\* The decimal digits of value >= 0, the first one first: what the two
\* loops of set_numbers_display (653-665) leave in digits[], read backwards.
RECURSIVE DigitsOf(_)
DigitsOf(value) ==
    IF value < 10 THEN <<value>>
    ELSE Append(DigitsOf(value \div 10), value % 10)

\* set_numbers_display: next_frame after it.
NumberCell(digits, k) ==
    IF k < Len(digits) THEN BitOr(ATTR_WHITE, CH_0 + digits[k + 1])
    ELSE BitOr(ATTR_WHITE, BLANK)

NumberAt(nf, at, digits) ==
    [i \in Screen |->
        IF i - at \in 0..7 THEN NumberCell(digits, i - at) ELSE nf[i]]

set_numbers_display(nf, pos_x, pos_y, value) ==
    NumberAt(nf, (pos_y * SCREEN_COLS) + pos_x, DigitsOf(value))

\* The walls of the playfield (727-737).
WALL_CELL == BitOr(ATTR_WHITE, HASH)

Walls(nf) ==
    [i \in Screen |->
        IF \/ /\ i \div SCREEN_COLS < GRID_SIZE_Y
              /\ i % SCREEN_COLS \in {0, GRID_SIZE_X + 1}
           \/ /\ i \div SCREEN_COLS = GRID_SIZE_Y
              /\ i % SCREEN_COLS < GRID_SIZE_X + 2
        THEN WALL_CELL
        ELSE nf[i]]

\* The labels written to next_frame (739-764).
Labels(nf) ==
    PutString(
        PutString(
            PutString(
                PutString(nf, STR_NEXT, ATTR_WHITE, 2, GRID_SIZE_X + 6),
                STR_LINES, ATTR_WHITE, 7, GRID_SIZE_X + 6),
            STR_LEVEL, ATTR_WHITE, 8, GRID_SIZE_X + 6),
        STR_SCORE, ATTR_WHITE, 9, GRID_SIZE_X + 6)

\* The three counters as tetris() first shows them (766-768).
Counters(nf, ln, sc, lvl) ==
    set_numbers_display(
        set_numbers_display(
            set_numbers_display(nf, GRID_SIZE_X + 13, 7, ln),
            GRID_SIZE_X + 13, 9, sc),
        GRID_SIZE_X + 13, 8, lvl)

\* The labels printed on the device (784-791).
Controls(vga) ==
    print_string(
     print_string(
      print_string(
       print_string(
        print_string(
         print_string(
          print_string(
           print_string(vga, STR_CONTROLS, ATTR_WHITE, 15, GRID_SIZE_X + 6),
           STR_LEFT, ATTR_WHITE, 16, GRID_SIZE_X + 6),
          STR_RIGHT, ATTR_WHITE, 17, GRID_SIZE_X + 6),
         STR_DROP, ATTR_WHITE, 18, GRID_SIZE_X + 6),
        STR_ROTATE, ATTR_WHITE, 19, GRID_SIZE_X + 6),
       STR_PAUSE, ATTR_WHITE, 20, GRID_SIZE_X + 6),
      STR_RESTART, ATTR_WHITE, 21, GRID_SIZE_X + 6),
     STR_HALT, ATTR_WHITE, 22, GRID_SIZE_X + 6)

\* main() and tetris() up to the main loop: init_frame_store(),
\* clear_screen(), the frame of the empty game, the labels.
SessionScreen ==
    [VGA |-> Controls(clear_screen),
     curr_frame |-> init_frame_store,
     next_frame |-> Counters(Labels(Walls(init_frame_store)), 0, 0, 0)]

\* One playfield cell of the redraw (953-959).
GridCell(v) ==
    IF v = 0 THEN BitOr(ATTR_GREY, BLANK)
    ELSE IF BitAnd(v, LOW_BYTE) = BLANK THEN BitOr(v, BLANK)
    ELSE BitOr(v, HASH)

\* create_next_tetrominoe: next_grid[x][y] for the piece it was called with.
NextGridCell(piece, x, y) ==
    IF <<x, y>> \in Cells(setup_tetrominoe(<<>>, piece, 0))
    THEN block_colours[piece]
    ELSE 0

\* One preview cell of the redraw (965-969).
NextCell(v) ==
    IF v = 0 THEN BitOr(ATTR_GREY, BLANK) ELSE BitOr(v, HASH)

\* next_grid holds the piece of the last roll: next, or current once next
\* was taken by STATE_CREATE_PIECE.
Preview(s) == IF s.next = NO_NEXT THEN s.current ELSE s.next

\* "Redraw screen" (951-971): next_frame after it.
redraw(nf, g, piece) ==
    [i \in Screen |->
        IF /\ (i % SCREEN_COLS) - 1 \in Cols
           /\ i \div SCREEN_COLS \in Rows
        THEN GridCell(At(g, (i % SCREEN_COLS) - 1, i \div SCREEN_COLS))
        ELSE IF /\ (i % SCREEN_COLS) - (GRID_SIZE_X + 6) \in 0..3
                /\ (i \div SCREEN_COLS) - 3 \in 0..3
        THEN NextCell(NextGridCell(piece,
                                   (i % SCREEN_COLS) - (GRID_SIZE_X + 6),
                                   (i \div SCREEN_COLS) - 3))
        ELSE nf[i]]

\* What a pass prints on the device before it redraws: the blanks over
\* PAUSED (848), GAME OVER (940), PAUSED (945).
Printed(vga, r) ==
    IF r.resumed
    THEN print_string(vga, STR_UNPAUSED, ATTR_GREEN, 11, GRID_SIZE_X + 6)
    ELSE IF r.call = PrintCall(STATE_GAME_OVER)
    THEN print_string(vga, STR_GAME_OVER, ATTR_RED, 12, GRID_SIZE_X + 6)
    ELSE IF r.call = PrintCall(STATE_PAUSED)
    THEN print_string(vga, STR_PAUSED, ATTR_GREEN, 11, GRID_SIZE_X + 6)
    ELSE vga

\* The counters STATE_ROW_REMOVE shows (904, 926, 932): level only when it
\* advanced from old_level.
LevelShown(nf, s, old_level) ==
    IF s.level # old_level
    THEN set_numbers_display(nf, GRID_SIZE_X + 13, 8, s.level)
    ELSE nf

Counted(nf, r, old_level) ==
    IF r.call.fn = "do_remove_lines"
    THEN LevelShown(
            set_numbers_display(
                set_numbers_display(nf, GRID_SIZE_X + 13, 7, r.s.lines),
                GRID_SIZE_X + 13, 9, r.s.score),
            r.s, old_level)
    ELSE nf

(***************************************************************************)
(* Scripted play.  A grid the game can hold mid-session is built with the  *)
(* operations above: each piece is created, rotated, shifted, moved down   *)
(* until the move is rejected (where it locks), and the rows it completes  *)
(* are flashed and removed as the main loop does.                          *)
(***************************************************************************)
\* p is a piece on a grid, [t, g].
\* Up to n rotations: a rejected rotation changes nothing, so the ones after
\* it would be rejected as well.
RECURSIVE RotateTimes(_, _, _)
RECURSIVE RotateOn(_, _, _)
RotateOn(r, type, n) ==
    IF r.ok THEN RotateTimes(r, type, n) ELSE r

RotateTimes(p, type, n) ==
    IF n = 0 THEN p
    ELSE RotateOn(rotate_tetrominoe(p.t, p.g, type), type, n - 1)

\* Up to n moves in one direction, likewise.
RECURSIVE MoveTimes(_, _, _)
RECURSIVE MoveOn(_, _, _)
MoveOn(r, direction, n) ==
    IF r.ret = 1 THEN MoveTimes(r, direction, n) ELSE r

MoveTimes(p, direction, n) ==
    IF n = 0 THEN p
    ELSE MoveOn(move_tetrominoe(p.t, p.g, direction), direction, n - 1)

\* Moves down until one is rejected.
RECURSIVE MoveDownUntilRejected(_)
RECURSIVE MoveDownOn(_)
MoveDownOn(r) ==
    IF r.ret = 1 THEN MoveDownUntilRejected(r) ELSE r

MoveDownUntilRejected(p) ==
    MoveDownOn(move_tetrominoe(p.t, p.g, MOVE_DOWN))

\* STATE_ROW_FLASH and STATE_ROW_REMOVE for the rows r of a grid whose
\* piece has locked.
FlashAndRemoveRows(g, r) ==
    IF r.count > 0
    THEN do_remove_lines(
            cycle_remove_lines(
                cycle_remove_lines(
                    cycle_remove_lines(
                        cycle_remove_lines(g, r.rl), r.rl), r.rl), r.rl),
            r.rl).g
    ELSE g

FlashAndRemove(g) == FlashAndRemoveRows(g, get_remove_lines(g, NoLines))

\* One placement <<piece, rotations, direction, shifts>> played on o.g:
\* [t, g, current] before the next piece is created; o itself when the
\* piece cannot be created (the game is over).
Locked(p, piece) ==
    [t |-> p.t, g |-> FlashAndRemove(p.g), current |-> piece]

PlayCreated(o, c, pl) ==
    IF c.ret = 1
    THEN Locked(MoveDownUntilRejected(
                    MoveTimes(RotateTimes(c, pl[1], pl[2]), pl[3], pl[4])),
                pl[1])
    ELSE o

PlayPiece(o, pl) == PlayCreated(o, create_tetrominoe(o.t, o.g, pl[1]), pl)

RECURSIVE PlayOpening(_, _)
RECURSIVE PlayRest(_, _, _)
PlayRest(o, o1, pls) ==
    IF o1.g = o.g THEN o1 ELSE PlayOpening(o1, pls)

PlayOpening(o, pls) ==
    IF pls = <<>> THEN o
    ELSE PlayRest(o, PlayPiece(o, Head(pls)), Tail(pls))

\* The session as tetris() starts it, before its first piece: tetrominoe
\* still holds what the stack held.
Unplayed == [t |-> <<<<0, 0>>, <<0, 0>>, <<0, 0>>, <<0, 0>>>>,
             g |-> EmptyGrid, current |-> NO_NEXT]

LineFlat(col) ==      \* a line laid flat on columns col..col+3
    IF col < SPAWN_OFFSET_X
    THEN <<PIECE_LINE, 0, MOVE_LEFT, SPAWN_OFFSET_X - col>>
    ELSE <<PIECE_LINE, 0, MOVE_RIGHT, col - SPAWN_OFFSET_X>>

LineUp(col) ==        \* a line stood upright in column col
    IF col < SPAWN_OFFSET_X
    THEN <<PIECE_LINE, 1, MOVE_LEFT, SPAWN_OFFSET_X - col>>
    ELSE <<PIECE_LINE, 1, MOVE_RIGHT, col - SPAWN_OFFSET_X>>

Square(col) ==        \* a square on columns col..col+1
    IF col < SPAWN_OFFSET_X + 1
    THEN <<PIECE_SQUARE, 0, MOVE_LEFT, (SPAWN_OFFSET_X + 1) - col>>
    ELSE <<PIECE_SQUARE, 0, MOVE_RIGHT, col - (SPAWN_OFFSET_X + 1)>>

\* Row 19 lacks columns 4..7: the flat line that spawns there completes it.
OpeningOneRow ==
    PlayOpening(Unplayed, <<LineFlat(0), Square(8)>>)

\* Rows 18 and 19 lack columns 5..6: the square that spawns there completes
\* both.
OpeningTwoRows ==
    PlayOpening(Unplayed,
        <<LineFlat(0), LineFlat(0), LineUp(4), LineUp(7), LineUp(8),
          LineUp(9)>>)

\* Rows 17..19 lack column 4, row 16 lacks more: an upright line in column
\* 4 completes three rows.
OpeningThreeRows ==
    PlayOpening(Unplayed,
        <<LineFlat(0), LineFlat(0), LineFlat(0), LineUp(5), LineUp(6),
          LineUp(7), LineUp(8), LineUp(9)>>)

\* Rows 16..19 lack column 4: an upright line in column 4 completes four.
OpeningFourRows ==
    PlayOpening(Unplayed,
        <<LineFlat(0), LineFlat(0), LineFlat(0), LineFlat(0), LineUp(5),
          LineUp(6), LineUp(7), LineUp(8), LineUp(9)>>)

\* The same with a tower on columns 0..1 that reaches row 0.
OpeningFourRowsTower ==
    PlayOpening(OpeningFourRows,
        <<LineUp(0), LineUp(0), LineUp(0), Square(0), Square(0)>>)

\* Columns 4..7 are filled up to row 2: the next piece locks where it
\* spawns and the one after it cannot be created.
OpeningFull ==
    PlayOpening(PlayOpening(Unplayed, <<LineFlat(4), LineFlat(4), LineFlat(4),
                                        LineFlat(4), LineFlat(4), LineFlat(4),
                                        LineFlat(4), LineFlat(4), LineFlat(4)>>),
                <<LineFlat(4), LineFlat(4), LineFlat(4), LineFlat(4),
                  LineFlat(4), LineFlat(4), LineFlat(4), LineFlat(4),
                  LineFlat(4)>>)

(***************************************************************************)
(* The sessions a run starts from: tetris() as main() first calls it, and  *)
(* sessions under way, taken at the top of the loop.  Most of those have   *)
(* the last piece locked and the next one due (STATE_CREATE_PIECE): o is   *)
(* the grid and the last piece, ln the lines and sc the points made before *)
(* the pieces of o were played, on a grid cleared every time: a row of 5   *)
(* squares clears 2 rows and leaves the grid empty, 2 lines at a time.     *)
(***************************************************************************)
MaxTicks == 80       \* timer interrupts in a run
MaxKeys == 2         \* keyboard interrupts in a run
MaxKeyTicks == 3     \* they come before this many timer interrupts
MaxBootTicks == 6    \* ticks_count when tetris() is first entered
MaxFrameTicks == 6   \* timer interrupts in a run that follows the screen
MaxFrameKeys == 1    \* keyboard interrupts in such a run
MaxKeybIrqs == 3     \* keyboard interrupts in a run of SpecKeyb

Garbage == {0, TICK_MOD \div 2}

\* irq_handlers as the loader leaves it (static storage, zeroed), after
\* register_irq_handler(irq, handler) (137-141), and once pit_init and
\* keyb_init have both run.
NULL == "NULL"

NoHandlers == [irq \in 0..15 |-> NULL]

register_irq_handler(h, irq, handler) ==
    IF irq < 0 \/ irq > 15 THEN h ELSE [h EXCEPT ![irq] = handler]

Registered ==
    register_irq_handler(
        register_irq_handler(NoHandlers, 0, "pit_tick_handler_c"),
        1, "keyb_handler_c")

\* No key has caused an action since its release.
NoActs == [left |-> <<>>, right |-> <<>>, up |-> <<>>, pause |-> <<>>]

LevelAt(ln) == IF ln \div LEVEL_LINES > LEVEL_MAX THEN LEVEL_MAX
               ELSE ln \div LEVEL_LINES

\* What the stack holds where tetris() has tetrominoe and lines_removed
\* when main() first calls it.
FirstStack == [tetrominoe |-> Unplayed.t, lines_removed |-> 0]

MidSession(o, nxt, ln, sc, ticks) ==
    [ticks |-> ticks,
     keyb_pressed |-> 1,
     begun |-> TRUE,
     acts |-> NoActs,
     locals |->
        [quit |-> 0, pause |-> 0, left |-> 0, right |-> 0, up |-> 0,
         down |-> 0, key_pressed |-> 0, down_pressed |-> 0,
         state |-> STATE_CREATE_PIECE, flash_lines_count |-> 0,
         lines |-> ln, level |-> LevelAt(ln), score |-> sc,
         lines_removed |-> 2,
         fall_delay |-> INITIAL_FALL_DELAY - (LEVEL_SPEEDUP * LevelAt(ln)),
         grid |-> o.g, tetrominoe |-> o.t, current |-> o.current,
         next |-> nxt, remove_lines |-> NoLines, last_move |-> ticks - 1]]

FirstSession(ticks, garbage) ==
    [ticks |-> ticks, keyb_pressed |-> 0, begun |-> FALSE, acts |-> NoActs,
     locals |-> tetris_entry(ticks, garbage, FirstStack)]

FirstSessions ==
    {FirstSession(ticks, garbage) :
        ticks \in 0..MaxBootTicks, garbage \in Garbage}

\* 8 lines are 4 double clears at level 0: 4 * 100 points.
\* 88 lines are 44 double clears, 5 at each of the levels 0..7 and 4 at
\* level 8: 5 * 100 * (1 + 2 + ... + 8) + 4 * 900 = 21600 points.
\* 90 lines are 45 double clears, 5 at each of the levels 0..8:
\* 5 * 100 * (1 + 2 + ... + 9) = 22500 points.
\* 9998 lines are 4954 double clears more, at level 9: 22500 + 4954 * 1000.
\* The line count then stays at 9999, and 95023 double clears more make
\* 4976500 + 95023 * 1000 = 99999500 points.
GameOverSession == MidSession(OpeningFull, PIECE_LINE, 0, 0, 4000)

SessionsUnderWay ==
    {MidSession(OpeningTwoRows, PIECE_SQUARE, 8, 400, 4000),
     MidSession(OpeningOneRow, PIECE_LINE, 90, 22500, 40000),
     MidSession(OpeningThreeRows, PIECE_LINE, 90, 22500, 40000),
     MidSession(OpeningFourRowsTower, PIECE_LINE, 90, 22500, 40000),
     MidSession(OpeningTwoRows, PIECE_SQUARE, 9998, 4976500, 4000000),
     MidSession(OpeningTwoRows, PIECE_SQUARE, 9999, 99999500, 80000000),
     MidSession(OpeningFull, PIECE_LINE, 90, 22500, 40000),
     MidSession(OpeningFourRows, PIECE_LINE, 88, 21600, 36000),
     GameOverSession}

\* The first session with its first piece still where it spawned, paused
\* (p pressed and released) before the piece first fell.
PausedSession ==
    [ticks |-> 50,
     keyb_pressed |-> 1,
     begun |-> TRUE,
     acts |-> NoActs,
     locals |-> [tetris_entry(2, 0, FirstStack)
                    EXCEPT !.state = STATE_PAUSED, !.next = RandPiece(3)]]

\* The first session with its first piece taken to the left wall (a
\* pressed and released 4 times) before it first fell.
AtWall(p, l) ==
    [ticks |-> 6,
     keyb_pressed |-> 0,
     begun |-> TRUE,
     acts |-> NoActs,
     locals |-> [l EXCEPT !.tetrominoe = p.t, !.grid = p.g,
                          !.next = RandPiece(2)]]

Entered(l) ==
    AtWall(MoveTimes([t |-> l.tetrominoe, g |-> l.grid], MOVE_LEFT,
                     SPAWN_OFFSET_X),
           l)

WallSession == Entered(tetris_entry(2, 0, FirstStack))

\* The same with the fourth press of a still held: it has moved the piece
\* to the wall, in this (the first) session.
HeldSession ==
    [WallSession EXCEPT !.keyb_pressed = 1,
                        !.acts.left = <<1>>,
                        !.locals.left = 1,
                        !.locals.key_pressed = 1]

\* A session at level 9 paused (p pressed and released) with its piece at
\* rest where it will lock, completing a row.
RestingPausedSession ==
    [MidSession(OpeningOneRow, PIECE_LINE, 90, 22500, 40000)
        EXCEPT !.locals.state = STATE_PAUSED]

Sessions ==
    FirstSessions \cup SessionsUnderWay
        \cup {PausedSession, WallSession, HeldSession, RestingPausedSession}

\* The sessions a run that follows the screen starts from, and what the
\* screen shows at the top of the loop of a session under way: the frame
\* of its last pass, flushed, and on the device the labels as well.
FrameSessions ==
    {FirstSession(0, 0), FirstSession(2, TICK_MOD \div 2), GameOverSession,
     PausedSession}

Shown(nf, vga) ==
    [VGA |-> [i \in Screen |-> IF nf[i] # ATTR_GREY THEN nf[i] ELSE vga[i]],
     curr_frame |-> nf,
     next_frame |-> nf]

ScreenAt(b) ==
    IF ~b.begun THEN SessionScreen
    ELSE Shown(redraw(Counters(Labels(Walls(init_frame_store)),
                               b.locals.lines, b.locals.score,
                               b.locals.level),
                      b.locals.grid, Preview(b.locals)),
               IF b.locals.state = STATE_PAUSED
               THEN print_string(Controls(clear_screen), STR_PAUSED,
                                 ATTR_GREEN, 11, GRID_SIZE_X + 6)
               ELSE Controls(clear_screen))

(***************************************************************************)
(* Spec: the game.  The loop body is one step, taken when the processor is *)
(* not waiting at hlt; an interrupt ends the wait.  The keyboard sends the *)
(* make and break codes of the keys the game reads.  Spec leaves the       *)
(* screen out (NotDrawn); SpecFrame is the same game, screen included, on  *)
(* shorter runs.                                                           *)
(***************************************************************************)
MakeCodes == {30, 32, 17, 31, 16, 25, 19}     \* a d w s q p r
ScanCodes == MakeCodes \cup {c + RELEASE_BIT : c \in MakeCodes}

NotDrawn == <<>>
NoFlush == [drawn |-> FALSE]
ScreenModelled == DOMAIN VGA = Screen

TickLimit == IF ScreenModelled THEN MaxFrameTicks ELSE MaxTicks
KeyLimit == IF ScreenModelled THEN MaxFrameKeys ELSE MaxKeys

\* No read of ticks_count in progress, none made.
NoTickRead ==
    [first |-> "none", stage |-> 0, reg |-> 0, held |-> {}, now |-> 0,
     prev |-> 0]

\* No read_keyb in progress.
NoPoll == [cached |-> FALSE, loaded |-> FALSE, reg |-> 0, reg_event |-> 0,
           flag_event |-> 0, char_event |-> 0]

InitGame(b) ==
    /\ LocalsAre(b.locals)
    /\ ticks_count = b.ticks
    /\ keyb_pressed = b.keyb_pressed
    /\ scancode = 0
    /\ keyb_char = 0
    /\ pc = "run"
    /\ session = 1
    /\ timer_irqs = 0
    /\ keyb_irqs = 0
    /\ last_call = NoCall
    /\ rot_from = <<>>
    /\ rot_n = 0
    /\ acts = b.acts
    /\ poll = NoPoll
    /\ slot_event = 0
    /\ lost = {}
    /\ irq_handlers = Registered
    /\ interrupts = 1
    /\ in_service = {}

Init ==
    /\ \E b \in Sessions : InitGame(b)
    /\ tick_read = NoTickRead
    /\ VGA = NotDrawn
    /\ curr_frame = NotDrawn
    /\ next_frame = NotDrawn
    /\ flush = NoFlush

InitScreen(scr) ==
    /\ VGA = scr.VGA
    /\ curr_frame = scr.curr_frame
    /\ next_frame = scr.next_frame
    /\ flush = NoFlush

InitFrame ==
    /\ \E b \in FrameSessions : InitGame(b) /\ InitScreen(ScreenAt(b))
    /\ tick_read = NoTickRead

\* pit_tick_handler_c.  pit_init(100) sets 10 ms between two ticks, a pass
\* of the loop takes far less: a tick finds the processor waiting at hlt.
TimerIrq ==
    /\ pc = "hlt"
    /\ timer_irqs < TickLimit
    /\ ticks_count' = (ticks_count + 1) % TICK_MOD
    /\ timer_irqs' = timer_irqs + 1
    /\ pc' = "run"
    /\ UNCHANGED <<scancode, keyb_char, keyb_pressed, keyVars, scoreVars,
                   pieceVars, lineVars, session, keyb_irqs, ghostVars,
                   frameVars, pollVars, picVars, tick_read>>

\* keyb_handler_c: scancode = inb(0x60).
keyb_handler_c(sc) ==
    /\ scancode' = sc
    /\ slot_event' = keyb_irqs + 1
    /\ keyb_irqs' = keyb_irqs + 1

KeybIrq(sc) ==
    /\ pc # "halted"
    /\ keyb_irqs < KeyLimit
    /\ timer_irqs < MaxKeyTicks
    /\ keyb_handler_c(sc)
    /\ pc' = IF pc = "hlt" THEN "run" ELSE pc
    /\ UNCHANGED <<keyb_char, keyb_pressed, ticks_count, keyVars, scoreVars,
                   pieceVars, lineVars, session, timer_irqs, ghostVars,
                   frameVars, poll, lost, picVars, tick_read>>

\* The key whose flag a poll that delivered k clears: its release.
ReleasedKey(k) ==
    IF k.keyb_pressed # 0 THEN "none"
    ELSE CASE k.keyb_char = CH_a -> "left"
           [] k.keyb_char = CH_d -> "right"
           [] k.keyb_char = CH_w -> "up"
           [] k.keyb_char = CH_p -> "pause"
           [] OTHER -> "none"

\* acts after a pass that polled k and in which the keys of acted acted.
ActsAfter(k, acted) ==
    [n \in DOMAIN acts |->
        IF n \in acted THEN Append(acts[n], session)
        ELSE IF n = ReleasedKey(k) THEN <<>>
        ELSE acts[n]]

\* The screen side of a pass before draw_next_frame(): the label it
\* prints, the counters it shows, the redraw.
Composed(r) ==
    /\ VGA' = Printed(VGA, r)
    /\ next_frame' = redraw(Counted(next_frame, r, level), r.s.grid,
                            Preview(r.s))
    /\ flush' = NoFlush
    /\ UNCHANGED curr_frame

\* One pass of the loop from read_keyb to the redraw (799-971), k being
\* what read_keyb left and r what the loop body did.  Where the screen is
\* left out the pass runs on to hlt.
Pass(k, r) ==
    /\ pc = "run"
    /\ quit = 0
    /\ ~Restarts(k.keyb_char, k.keyb_pressed)
    /\ scancode' = 0
    /\ slot_event' = 0
    /\ keyb_char' = k.keyb_char
    /\ keyb_pressed' = k.keyb_pressed
    /\ SetLocals(r.s)
    /\ last_call' = r.call
    /\ acts' = ActsAfter(k, r.acted)
    /\ IF ScreenModelled
       THEN pc' = "draw" /\ Composed(r)
       ELSE pc' = "hlt" /\ UNCHANGED frameVars
    /\ UNCHANGED <<ticks_count, session, timer_irqs, keyb_irqs, rot_from,
                   rot_n, poll, lost, picVars, tick_read>>

Polled(k) ==
    Pass(k, loop_body(Locals, k.keyb_char, k.keyb_pressed, ticks_count))

Iterate == Polled(read_keyb(scancode))

\* draw_next_frame() (973), which ends the pass.
Drawn(d) ==
    /\ pc = "draw"
    /\ VGA' = d.VGA
    /\ curr_frame' = d.curr_frame
    /\ flush' = [drawn |-> TRUE, written |-> d.written]
    /\ pc' = "hlt"
    /\ UNCHANGED <<irqVars, keyVars, scoreVars, pieceVars, lineVars, session,
                   timer_irqs, keyb_irqs, ghostVars, next_frame, pollVars,
                   picVars, tick_read>>

Draw == Drawn(draw_next_frame(VGA, curr_frame, next_frame))

\* The pass that reads r: tetris() returns, main() calls init_frame_store()
\* and tetris() again, which runs to the top of its loop.
Reentered(k) ==
    /\ pc = "run"
    /\ quit = 0
    /\ Restarts(k.keyb_char, k.keyb_pressed)
    /\ scancode' = 0
    /\ slot_event' = 0
    /\ keyb_char' = k.keyb_char
    /\ keyb_pressed' = k.keyb_pressed
    /\ \E garbage \in Garbage \cup {last_move} :
          SetLocals(tetris_entry(ticks_count, garbage, Locals))
    /\ pc' = "run"
    /\ session' = session + 1
    /\ last_call' = [fn |-> "tetris", arg |-> 0, ret |-> 0]
    /\ IF ScreenModelled
       THEN /\ VGA' = SessionScreen.VGA
            /\ curr_frame' = SessionScreen.curr_frame
            /\ next_frame' = SessionScreen.next_frame
            /\ flush' = NoFlush
       ELSE UNCHANGED frameVars
    /\ UNCHANGED <<ticks_count, timer_irqs, keyb_irqs, rot_from, rot_n,
                   acts, poll, lost, picVars, tick_read>>

Restart == Reentered(read_keyb(scancode))

\* quit ends the loop at its next test, after the pass that read q has
\* drawn and waited at hlt: CPU HALTED is printed, interrupts are disabled
\* and the processor halts for good.
Halt ==
    /\ pc = "run"
    /\ quit # 0
    /\ pc' = "halted"
    /\ interrupts' = 0
    /\ last_call' = [fn |-> "disable_interrupts", arg |-> 0, ret |-> 0]
    /\ IF ScreenModelled
       THEN /\ VGA' = print_string(VGA, STR_CPU_HALTED, ATTR_BLUE, 13,
                                   GRID_SIZE_X + 6)
            /\ flush' = NoFlush
            /\ UNCHANGED <<curr_frame, next_frame>>
       ELSE UNCHANGED frameVars
    /\ UNCHANGED <<irqVars, keyVars, scoreVars, pieceVars, lineVars, session,
                   timer_irqs, keyb_irqs, rot_from, rot_n, acts, pollVars,
                   irq_handlers, in_service, tick_read>>

Next ==
    \/ Iterate
    \/ Restart
    \/ Halt
    \/ TimerIrq
    \/ \E sc \in ScanCodes : KeybIrq(sc)

Spec == Init /\ [][Next]_vars

NextFrame ==
    \/ Iterate
    \/ Draw
    \/ Restart
    \/ Halt
    \/ TimerIrq
    \/ \E sc \in ScanCodes : KeybIrq(sc)

SpecFrame == InitFrame /\ [][NextFrame]_vars

(***************************************************************************)
(* SpecPiece: the piece operations applied, in any order, to a freshly     *)
(* created piece of any type, on an empty grid and on one in use.          *)
(***************************************************************************)
PieceGrids == {EmptyGrid, OpeningOneRow.g, OpeningThreeRows.g}

Created(c, p) ==
    /\ c.ret = 1
    /\ LocalsAre([tetris_entry(0, 0, FirstStack)
                     EXCEPT !.grid = c.g, !.tetrominoe = c.t, !.current = p])
    /\ last_call = [fn |-> "create", arg |-> p, ret |-> c.ret]

InitPiece ==
    /\ \E p \in 0..(PIECE_TYPES - 1), g \in PieceGrids :
          Created(create_tetrominoe(Unplayed.t, g, p), p)
    /\ rot_from = tetrominoe
    /\ rot_n = 0
    /\ acts = NoActs
    /\ scancode = 0 /\ keyb_char = 0 /\ keyb_pressed = 0 /\ ticks_count = 0
    /\ pc = "run" /\ session = 1 /\ timer_irqs = 0 /\ keyb_irqs = 0
    /\ VGA = NotDrawn /\ curr_frame = NotDrawn /\ next_frame = NotDrawn
    /\ flush = NoFlush
    /\ poll = NoPoll /\ slot_event = 0 /\ lost = {}
    /\ irq_handlers = Registered /\ interrupts = 1 /\ in_service = {}
    /\ tick_read = NoTickRead

pieceIdle ==
    <<irqVars, keyVars, scoreVars, current, lineVars, runVars, frameVars,
      pollVars, acts, picVars, tick_read>>

Moved(r, direction) ==
    /\ grid' = r.g
    /\ tetrominoe' = r.t
    /\ last_call' = [fn |-> "move", arg |-> direction, ret |-> r.ret]
    /\ rot_from' = r.t
    /\ rot_n' = 0
    /\ UNCHANGED pieceIdle

DoMove(direction) ==
    Moved(move_tetrominoe(tetrominoe, grid, direction), direction)

Rotated(r) ==
    /\ grid' = r.g
    /\ tetrominoe' = r.t
    /\ last_call' = [fn |-> "rotate", arg |-> current, ret |-> 0]
    /\ IF ~r.ok THEN rot_from' = r.t /\ rot_n' = 0
       ELSE IF rot_n = 4 THEN rot_from' = tetrominoe /\ rot_n' = 1
       ELSE rot_from' = rot_from /\ rot_n' = rot_n + 1
    /\ UNCHANGED pieceIdle

DoRotate == Rotated(rotate_tetrominoe(tetrominoe, grid, current))

NextPiece ==
    \/ \E direction \in {MOVE_DOWN, MOVE_LEFT, MOVE_RIGHT} : DoMove(direction)
    \/ DoRotate

SpecPiece == InitPiece /\ [][NextPiece]_vars

(***************************************************************************)
(* SpecKeyb: read_keyb a statement at a time, with keyboard interrupts     *)
(* between any two of them.  scancode is not volatile and is shared with   *)
(* the interrupt handler without any protection, so the build decides      *)
(* which of its reads go to memory: a poll runs either as written, every   *)
(* access a memory access, or with scancode held in a register from its    *)
(* first read to the final store of 0 (poll.cached).  An interrupt is      *)
(* named by its number; the poll remembers which interrupt's code it took  *)
(* the press flag from (flag_event) and which one's it decoded             *)
(* (char_event).                                                           *)
(***************************************************************************)
\* What scancode_table[i] may yield for i past the end of the table.
OutOfTable == {0, CH_q}

InitKeyb ==
    /\ InitGame(FirstSession(0, 0))
    /\ tick_read = NoTickRead
    /\ VGA = NotDrawn
    /\ curr_frame = NotDrawn
    /\ next_frame = NotDrawn
    /\ flush = NoFlush

keybIdle ==
    <<ticks_count, keyVars, scoreVars, pieceVars, lineVars, session,
      timer_irqs, ghostVars, frameVars, picVars, tick_read>>

\* What a read of scancode yields, and the poll once it has read it.
Loaded ==
    IF poll.cached /\ poll.loaded
    THEN [v |-> poll.reg, e |-> poll.reg_event]
    ELSE [v |-> scancode, e |-> slot_event]

Load(r) == [poll EXCEPT !.loaded = TRUE, !.reg = r.v, !.reg_event = r.e]

\* 34-35: keyb_char = '\0'; keyb_pressed = 0;
KeybReset ==
    /\ pc = "run"
    /\ keyb_char' = 0
    /\ keyb_pressed' = 0
    /\ \E c \in BOOLEAN : poll' = [NoPoll EXCEPT !.cached = c]
    /\ pc' = "test"
    /\ UNCHANGED <<scancode, slot_event, lost, keyb_irqs, keybIdle>>

\* 37-38: if (scancode & 0x80) { keyb_pressed = 0;
Tested(r) ==
    /\ pc = "test"
    /\ IF BitAnd(r.v, RELEASE_BIT) # 0
       THEN /\ keyb_pressed' = 0
            /\ poll' = [Load(r) EXCEPT !.flag_event = r.e]
            /\ pc' = "mask"
       ELSE /\ keyb_pressed' = keyb_pressed
            /\ poll' = Load(r)
            /\ pc' = "test2"
    /\ UNCHANGED <<scancode, keyb_char, slot_event, lost, keyb_irqs, keybIdle>>

KeybTest == Tested(Loaded)

\* 39: scancode = scancode & 0x7F; the read.
MaskRead(r) ==
    /\ pc = "mask"
    /\ poll' = Load(r)
    /\ pc' = "store"
    /\ UNCHANGED <<scancode, keyb_char, keyb_pressed, slot_event, lost,
                   keyb_irqs, keybIdle>>

KeybMaskRead == MaskRead(Loaded)

\* The mutant of KeybMaskStore: the release bit is not masked off.
KeybMaskDropped ==
    /\ pc = "store"
    /\ pc' = "range"
    /\ UNCHANGED <<scancode, keyb_char, keyb_pressed, pollVars, keyb_irqs,
                   keybIdle>>

\* 39: the store.  With scancode in a register the register is masked;
\* otherwise the masked code is stored over whatever the slot holds by now.
KeybMaskStore ==
    /\ pc = "store"
    /\ IF poll.cached
       THEN /\ poll' = [poll EXCEPT !.reg = BitAnd(poll.reg, CODE_MASK)]
            /\ UNCHANGED <<scancode, slot_event, lost>>
       ELSE /\ scancode' = BitAnd(poll.reg, CODE_MASK)
            /\ slot_event' = poll.reg_event
            /\ lost' = IF slot_event \in {0, poll.reg_event} THEN lost
                       ELSE lost \cup {slot_event}
            /\ poll' = poll
    /\ pc' = "range"
    /\ UNCHANGED <<keyb_char, keyb_pressed, keyb_irqs, keybIdle>>

\* 40-41: else if (!(scancode & 0x80)) { keyb_pressed = 1; }
Tested2(r) ==
    /\ pc = "test2"
    /\ IF BitAnd(r.v, RELEASE_BIT) = 0
       THEN /\ keyb_pressed' = 1
            /\ poll' = [Load(r) EXCEPT !.flag_event = r.e]
       ELSE /\ keyb_pressed' = keyb_pressed
            /\ poll' = Load(r)
    /\ pc' = "range"
    /\ UNCHANGED <<scancode, keyb_char, slot_event, lost, keyb_irqs, keybIdle>>

KeybTest2 == Tested2(Loaded)

\* 44: if (scancode > 0 && ...
RangedLo(r) ==
    /\ pc = "range"
    /\ poll' = Load(r)
    /\ pc' = IF r.v > 0 THEN "range2" ELSE "clear"
    /\ UNCHANGED <<scancode, keyb_char, keyb_pressed, slot_event, lost,
                   keyb_irqs, keybIdle>>

KeybRangeLo == RangedLo(Loaded)

\* 44: ... && scancode <= 127)
RangedHi(r) ==
    /\ pc = "range2"
    /\ poll' = Load(r)
    /\ pc' = IF r.v <= 127 THEN "index" ELSE "clear"
    /\ UNCHANGED <<scancode, keyb_char, keyb_pressed, slot_event, lost,
                   keyb_irqs, keybIdle>>

KeybRangeHi == RangedHi(Loaded)

\* 45: keyb_char = scancode_table[scancode]; an index the interrupt has
\* raised past the table since line 44 reads whatever lies behind it.
Indexed(r) ==
    /\ pc = "index"
    /\ IF r.v < TABLE_SIZE
       THEN keyb_char' = TableChar(r.v)
       ELSE keyb_char' \in OutOfTable
    /\ poll' = [Load(r) EXCEPT !.char_event = r.e]
    /\ pc' = "clear"
    /\ UNCHANGED <<scancode, keyb_pressed, slot_event, lost, keyb_irqs,
                   keybIdle>>

KeybIndex == Indexed(Loaded)

\* 48: scancode = 0.  The code the slot holds is erased; it was delivered
\* if this poll took both the press flag and the character from it.
KeybClear ==
    /\ pc = "clear"
    /\ scancode' = 0
    /\ slot_event' = 0
    /\ lost' = IF \/ slot_event = 0
                  \/ /\ poll.flag_event = slot_event
                     /\ poll.char_event = slot_event
               THEN lost
               ELSE lost \cup {slot_event}
    /\ pc' = "hlt"
    /\ UNCHANGED <<keyb_char, keyb_pressed, poll, keyb_irqs, keybIdle>>

\* The rest of the pass, up to the next read_keyb.
KeybLoop ==
    /\ pc = "hlt"
    /\ pc' = "run"
    /\ UNCHANGED <<irqVars, pollVars, keyb_irqs, keybIdle>>

\* The keyboard interrupt, wherever the poll is.
KeybEvent(sc) ==
    /\ keyb_irqs < MaxKeybIrqs
    /\ keyb_handler_c(sc)
    /\ UNCHANGED <<keyb_char, keyb_pressed, pc, poll, lost, keybIdle>>

NextKeyb ==
    \/ KeybReset
    \/ KeybTest
    \/ KeybMaskRead
    \/ KeybMaskStore
    \/ KeybTest2
    \/ KeybRangeLo
    \/ KeybRangeHi
    \/ KeybIndex
    \/ KeybClear
    \/ KeybLoop
    \/ \E sc \in ScanCodes : KeybEvent(sc)

SpecKeyb == InitKeyb /\ [][NextKeyb]_vars

(***************************************************************************)
(* SpecDecode: read_keyb a statement at a time again, polling what         *)
(* keyb_handler_c stored before the poll began: the interrupt comes only   *)
(* between two polls, and inb(0x60) may yield any byte.                    *)
(***************************************************************************)
MaxDecodeIrqs == 2   \* keyboard interrupts in a run of SpecDecode

Bytes == 0..255

KeybByte(c) ==
    /\ pc = "run"
    /\ keyb_irqs < MaxDecodeIrqs
    /\ keyb_handler_c(c)
    /\ last_call' = [fn |-> "keyb_handler_c", arg |-> c, ret |-> 0]
    /\ UNCHANGED <<keyb_char, keyb_pressed, ticks_count, keyVars, scoreVars,
                   pieceVars, lineVars, pc, session, timer_irqs, rot_from,
                   rot_n, acts, frameVars, poll, lost, picVars, tick_read>>

NextDecode ==
    \/ KeybReset
    \/ KeybTest
    \/ KeybMaskRead
    \/ KeybMaskStore
    \/ KeybTest2
    \/ KeybRangeLo
    \/ KeybRangeHi
    \/ KeybIndex
    \/ KeybClear
    \/ KeybLoop
    \/ \E c \in Bytes : KeybByte(c)

SpecDecode == InitKeyb /\ [][NextDecode]_vars

(***************************************************************************)
(* SpecBoot: main() from its first statement to its first call of tetris() *)
(* (989-994), and the interrupts delivered meanwhile.  idt_init routes     *)
(* lines 0 and 1 to irq_dispatch; pic_remap keeps the masks it finds, so   *)
(* both lines are open as the loader left them.  The controller puts a     *)
(* line in service when it delivers it, and holds back that line and the   *)
(* lines after it until pic_send_eoi.  An interrupt gate clears the        *)
(* interrupt flag: a handler runs to its end undisturbed.                  *)
(***************************************************************************)
MaxBootKeys == 2

\* pic_send_eoi(irq) (94-98), irq < 8: the line is no longer in service.
pic_send_eoi(isr, irq) == isr \ {irq}

\* The calls of pic_send_eoi a handler makes (125, 131).
EoisOf(handler) ==
    IF handler \in {"pit_tick_handler_c", "keyb_handler_c"} THEN 1 ELSE 0

\* irq_dispatch(irq) (206-209): the handler it calls, NULL for none.
irq_dispatch(irq) == irq_handlers[irq]

InitBoot ==
    /\ LocalsAre(tetris_entry(0, 0, FirstStack))
    /\ ticks_count = 0
    /\ scancode = 0 /\ keyb_char = 0 /\ keyb_pressed = 0
    /\ pc = "idt_init"
    /\ session = 0
    /\ timer_irqs = 0 /\ keyb_irqs = 0
    /\ last_call = NoCall
    /\ rot_from = <<>> /\ rot_n = 0 /\ acts = NoActs
    /\ VGA = NotDrawn /\ curr_frame = NotDrawn /\ next_frame = NotDrawn
    /\ flush = NoFlush
    /\ poll = NoPoll /\ slot_event = 0 /\ lost = {}
    /\ irq_handlers = NoHandlers
    /\ interrupts = 0
    /\ in_service = {}
    /\ tick_read = NoTickRead

bootIdle ==
    <<keyb_char, keyb_pressed, keyVars, scoreVars, pieceVars, lineVars,
      session, rot_from, rot_n, acts, frameVars, poll, lost, tick_read>>

\* A statement of the start-up sequence: from, to are the places before
\* and after it.
BootStep(from, to, fn) ==
    /\ pc = from
    /\ pc' = to
    /\ last_call' = [fn |-> fn, arg |-> 0, ret |-> 0]
    /\ UNCHANGED <<scancode, ticks_count, slot_event, timer_irqs, keyb_irqs,
                   in_service, bootIdle>>

\* idt_init() (191-203).
IdtInit ==
    /\ BootStep("idt_init", "pit_init", "idt_init")
    /\ UNCHANGED <<irq_handlers, interrupts>>

\* pit_init(100): disable_interrupts(), pic_remap(), pit_set_frequency(hz)
\* (146-148).
PitCli ==
    /\ BootStep("pit_init", "pit_register", "disable_interrupts")
    /\ interrupts' = 0
    /\ UNCHANGED irq_handlers

\* register_irq_handler(0, pit_tick_handler_c) (149).
PitRegister ==
    /\ BootStep("pit_register", "pit_sti", "register_irq_handler")
    /\ irq_handlers' = register_irq_handler(irq_handlers, 0,
                                            "pit_tick_handler_c")
    /\ UNCHANGED interrupts

\* enable_interrupts() (150).
PitSti ==
    /\ BootStep("pit_sti", "keyb_init", "enable_interrupts")
    /\ interrupts' = 1
    /\ UNCHANGED irq_handlers

\* keyb_init(): disable_interrupts() (155).
KeybCli ==
    /\ BootStep("keyb_init", "keyb_register", "disable_interrupts")
    /\ interrupts' = 0
    /\ UNCHANGED irq_handlers

\* register_irq_handler(1, keyb_handler_c) (156).
KeybRegister ==
    /\ BootStep("keyb_register", "keyb_sti", "register_irq_handler")
    /\ irq_handlers' = register_irq_handler(irq_handlers, 1,
                                            "keyb_handler_c")
    /\ UNCHANGED interrupts

\* enable_interrupts() (157).
KeybSti ==
    /\ BootStep("keyb_sti", "main", "enable_interrupts")
    /\ interrupts' = 1
    /\ UNCHANGED irq_handlers

\* init_frame_store(); tetris(); (993-994), up to the top of the loop.
EnterTetris ==
    /\ pc = "main"
    /\ pc' = "run"
    /\ session' = 1
    /\ \E garbage \in Garbage :
          SetLocals(tetris_entry(ticks_count, garbage, FirstStack))
    /\ last_call' = [fn |-> "tetris", arg |-> 0, ret |-> 0]
    /\ UNCHANGED <<irqVars, timer_irqs, keyb_irqs, rot_from, rot_n, acts,
                   frameVars, pollVars, picVars, tick_read>>

\* The controller delivers line irq and irq_dispatch(irq) calls handler, if
\* there is one.
Delivered(irq, handler) ==
    /\ pc \notin {"run", "hlt", "halted"}
    /\ interrupts = 1
    /\ \A l \in in_service : irq < l
    /\ in_service' = IF EoisOf(handler) > 0
                     THEN pic_send_eoi(in_service \cup {irq}, irq)
                     ELSE in_service \cup {irq}
    /\ last_call' = [fn |-> "irq_dispatch", arg |-> irq,
                     ret |-> EoisOf(handler)]
    /\ UNCHANGED <<pc, irq_handlers, interrupts, bootIdle>>

\* Line 0: the timer.
BootTimerIrq ==
    /\ timer_irqs < MaxBootTicks
    /\ Delivered(0, irq_dispatch(0))
    /\ timer_irqs' = timer_irqs + 1
    /\ ticks_count' = IF irq_dispatch(0) = "pit_tick_handler_c"
                      THEN (ticks_count + 1) % TICK_MOD ELSE ticks_count
    /\ UNCHANGED <<scancode, slot_event, keyb_irqs>>

\* Line 1: the keyboard, with sc in its data port.
BootKeybIrq(sc) ==
    /\ keyb_irqs < MaxBootKeys
    /\ Delivered(1, irq_dispatch(1))
    /\ IF irq_dispatch(1) = "keyb_handler_c"
       THEN keyb_handler_c(sc)
       ELSE keyb_irqs' = keyb_irqs + 1 /\ UNCHANGED <<scancode, slot_event>>
    /\ UNCHANGED <<ticks_count, timer_irqs>>

NextBoot ==
    \/ IdtInit
    \/ PitCli
    \/ PitRegister
    \/ PitSti
    \/ KeybCli
    \/ KeybRegister
    \/ KeybSti
    \/ EnterTetris
    \/ BootTimerIrq
    \/ \E sc \in ScanCodes : BootKeybIrq(sc)

SpecBoot == InitBoot /\ [][NextBoot]_vars

(***************************************************************************)
(* SpecTick: now = ticks_count (854) as the 32-bit target makes it, two    *)
(* loads of one word each, in the order the build chose, and the timer     *)
(* interrupt at any point of the loop.  Ticks are 10 ms apart: at most one *)
(* falls between the two loads.  The counter starts near the values where  *)
(* its low word wraps.                                                     *)
(***************************************************************************)
MaxReadTicks == 4

TickStarts == {0, WORD_MOD - 2, WORD_MOD - 1, (2 * WORD_MOD) - 1}

\* The low and the high word of a counter value, and the value of two words.
LoWord(v) == v % WORD_MOD

HiWord(v) == v \div WORD_MOD

Word(which, v) == IF which = "lo" THEN LoWord(v) ELSE HiWord(v)

Joined(hi, lo) == (hi * WORD_MOD) + lo

InitTick ==
    /\ \E t \in TickStarts : InitGame([FirstSession(0, 0) EXCEPT !.ticks = t])
    /\ \E w \in {"lo", "hi"} : tick_read = [NoTickRead EXCEPT !.first = w]
    /\ VGA = NotDrawn
    /\ curr_frame = NotDrawn
    /\ next_frame = NotDrawn
    /\ flush = NoFlush

tickIdle ==
    <<scancode, keyb_char, keyb_pressed, keyVars, scoreVars, pieceVars,
      lineVars, session, keyb_irqs, ghostVars, frameVars, pollVars, picVars>>

\* The first load of now = ticks_count.
TickLoadFirst ==
    /\ pc = "run"
    /\ tick_read' = [tick_read EXCEPT
                        !.stage = 1,
                        !.reg = Word(tick_read.first, ticks_count),
                        !.held = {ticks_count}]
    /\ pc' = "load"
    /\ UNCHANGED <<ticks_count, timer_irqs, tickIdle>>

\* The second load, of the other word; the pass then runs on to hlt.
TickLoadSecond ==
    /\ pc = "load"
    /\ tick_read' = [tick_read EXCEPT
                        !.stage = 2,
                        !.prev = tick_read.now,
                        !.now = IF tick_read.first = "lo"
                                THEN Joined(HiWord(ticks_count), tick_read.reg)
                                ELSE Joined(tick_read.reg, LoWord(ticks_count))]
    /\ pc' = "hlt"
    /\ UNCHANGED <<ticks_count, timer_irqs, tickIdle>>

\* pit_tick_handler_c, wherever the loop is.
TickIrq ==
    /\ pc \in {"run", "load", "hlt"}
    /\ timer_irqs < MaxReadTicks
    /\ tick_read.stage = 1 => Cardinality(tick_read.held) < 2
    /\ ticks_count' = (ticks_count + 1) % TICK_MOD
    /\ timer_irqs' = timer_irqs + 1
    /\ tick_read' = IF tick_read.stage = 1
                    THEN [tick_read EXCEPT !.held = @ \cup {ticks_count'}]
                    ELSE tick_read
    /\ pc' = IF pc = "hlt" THEN "run" ELSE pc
    /\ UNCHANGED tickIdle

NextTick ==
    \/ TickLoadFirst
    \/ TickLoadSecond
    \/ TickIrq

SpecTick == InitTick /\ [][NextTick]_vars

(***************************************************************************)
(* SpecFall: the first piece of a session from tetris()'s entry to its     *)
(* lock, under the keys that move it (a d w s, pressed and released) and   *)
(* a timer that keeps ticking.  last_move starts as the stack left it:     *)
(* equal to ticks_count (the longest wait for the first fall), one ahead   *)
(* of it (now - last_move wraps to its largest value) or half the range    *)
(* away.  Pieces of every type, turned every way, fall likewise in a      *)
(* session at level 9.  The run is followed until the piece has locked.    *)
(***************************************************************************)
MaxFallTicks == 2000     \* timer interrupts in a run: 20 rows, 91 ticks each
MaxFallKeys == 1         \* keyboard interrupts in a run
MaxFallKeyTicks == 2     \* they come before this many timer interrupts
MaxFallBootTicks == 0    \* ticks_count when tetris() is entered
MaxFallSpins == 3        \* turns of a piece before it first falls

FallCodes ==
    {30, 32, 17, 31} \cup {c + RELEASE_BIT : c \in {30, 32, 17, 31}}

FallGarbage(ticks) == {ticks, (ticks + 1) % TICK_MOD, TICK_MOD \div 2}

\* A piece of each type as it spawns on the empty grid, turned n times.
Spun(piece, n) ==
    RotateTimes(create_tetrominoe(Unplayed.t, EmptyGrid, piece), piece, n)

\* A session at level 9 (fall delay 0) whose grid was cleared by its last
\* double clear: the piece p has spawned and was turned within the tick in
\* which the piece before it locked, so it has not fallen yet.
Falling(p, piece) ==
    [MidSession(Unplayed, RandPiece(40000), 90, 22500, 40000)
        EXCEPT !.locals.state = STATE_DESCEND,
               !.locals.grid = p.g,
               !.locals.tetrominoe = p.t,
               !.locals.current = piece,
               !.locals.last_move = 40000]

FallingSessions ==
    {Falling(Spun(piece, n), piece) :
        piece \in 0..(PIECE_TYPES - 1), n \in 0..MaxFallSpins}

FallSessions ==
    FallingSessions \cup
    UNION {{FirstSession(ticks, garbage) : garbage \in FallGarbage(ticks)} :
              ticks \in 0..MaxFallBootTicks}

InitFall ==
    /\ \E b \in FallSessions : InitGame(b)
    /\ tick_read = NoTickRead
    /\ VGA = NotDrawn
    /\ curr_frame = NotDrawn
    /\ next_frame = NotDrawn
    /\ flush = NoFlush

\* One pass of the main loop while the piece descends.
FallPass == state = STATE_DESCEND /\ Iterate

\* pit_tick_handler_c, the processor waiting at hlt.
FallTick ==
    /\ state = STATE_DESCEND
    /\ pc = "hlt"
    /\ timer_irqs < MaxFallTicks
    /\ ticks_count' = (ticks_count + 1) % TICK_MOD
    /\ timer_irqs' = timer_irqs + 1
    /\ pc' = "run"
    /\ UNCHANGED <<scancode, keyb_char, keyb_pressed, keyVars, scoreVars,
                   pieceVars, lineVars, session, keyb_irqs, ghostVars,
                   frameVars, pollVars, picVars, tick_read>>

\* keyb_handler_c for a key that moves the piece.
FallKeybIrq(sc) ==
    /\ state = STATE_DESCEND
    /\ keyb_irqs < MaxFallKeys
    /\ timer_irqs < MaxFallKeyTicks
    /\ keyb_handler_c(sc)
    /\ pc' = IF pc = "hlt" THEN "run" ELSE pc
    /\ UNCHANGED <<keyb_char, keyb_pressed, ticks_count, keyVars, scoreVars,
                   pieceVars, lineVars, session, timer_irqs, ghostVars,
                   frameVars, poll, lost, picVars, tick_read>>

NextFall ==
    \/ FallPass
    \/ FallTick
    \/ \E sc \in FallCodes : FallKeybIrq(sc)

\* The processor at the top of the loop runs the pass to its hlt: the step
\* of the program that FallPass is, named by what it does to pc alone.
PassToHlt == state = STATE_DESCEND /\ pc = "run" /\ pc' = "hlt"

\* The timer interrupts every 10 ms and the processor runs the loop
\* whenever it is not waiting at hlt.
SpecFall ==
    InitFall /\ [][NextFall]_vars /\ WF_vars(FallTick) /\ WF_pc(PassToHlt)

\* C1: four rotations in a row, each accepted by the collision rule, leave
\* the piece on the same 4 grid cells as before the first of them.
C1_FourRotationsReturn ==
    rot_n = 4 => Cells(tetrominoe) = Cells(rot_from)

\* The rows a removal set names, and the grid a removal is to leave: the
\* rows that stay, in their order, at the bottom, and empty rows above them.
SlotRows(rl) == {rl[i] : i \in {j \in 1..4 : rl[j] # NO_LINE}}

RowsBelow(R, y) == Cardinality({r \in R : r > y})

\* The row of the old grid that ends in row y: the y' outside R with
\* y' + (removed rows below y') = y; none (-1) for the top rows.
SourceRow(R, y) ==
    LET from == {y1 \in Rows \ R : y1 + RowsBelow(R, y1) = y}
    IN IF from = {} THEN NO_LINE ELSE CHOOSE y1 \in from : TRUE

GridAfterRemoval(g, R) ==
    [x \in 1..GRID_SIZE_X |-> [y \in 1..GRID_SIZE_Y |->
        IF SourceRow(R, y - 1) = NO_LINE THEN 0
        ELSE g[x][SourceRow(R, y - 1) + 1]]]

\* C2: after do_remove_lines on a non-empty set of complete rows the removed
\* rows are gone, each row above a removed row has moved down one row per
\* removed row below it, the top rows (row 0 among them) are empty, the rows
\* below the lowest removed row are as they were, every slot is -1 and the
\* count returned is the number of rows removed.
C2_RemovalShiftsAndEmptiesTop ==
    [][ (state = STATE_ROW_REMOVE /\ last_call'.fn = "do_remove_lines")
          => /\ grid' = GridAfterRemoval(grid, SlotRows(remove_lines))
             /\ remove_lines' = NoLines
             /\ lines_removed' = Cardinality(SlotRows(remove_lines)) ]_vars

C4_PollErasesOnlyWhatItDelivers ==
    lost = {}

\* C5: draw_next_frame writes to the device exactly the cells whose desired
\* value differed from the shown one before the call, each with its desired
\* value, leaves the desired frame as it was, and afterwards the shown frame
\* equals the desired one in all 2000 cells.
C5_FlushWritesTheDifferences ==
    [][ (pc = "draw" /\ pc' = "hlt")
          => /\ flush'.written = {i \in Screen : next_frame[i] # curr_frame[i]}
             /\ \A i \in Screen :
                   VGA'[i] = IF next_frame[i] # curr_frame[i]
                             THEN next_frame[i]
                             ELSE VGA[i]
             /\ next_frame' = next_frame
             /\ \A i \in Screen : curr_frame'[i] = next_frame'[i] ]_vars

\* A flush wrote the 8 cells a piece leaves and takes when it moves one
\* row down.
C5_Witness ==
    /\ flush.drawn
    /\ Cardinality(flush.written) = 8
    /\ last_call.fn = "move"

\* C6: after every flush of a session (counted from init_frame_store and
\* clear_screen, the labels print_string writes included) each of the 2000
\* cells of the device equals the cell of the shown frame, which equals the
\* cell of the desired frame.
C6_DeviceShowsTheFrame ==
    flush.drawn =>
        \A i \in Screen : VGA[i] = curr_frame[i] /\ curr_frame[i] = next_frame[i]

\* What a step that clears k rows is to add per level, and saturation.
PointsFor(k) == <<40, 100, 300, 1200>>[k]

Least(a, b) == IF a < b THEN a ELSE b

\* C7: a RowRemove step that clears k rows (1..4) at level L adds
\* 40, 100, 300 or 1200 times (L + 1) to the score, L being the level
\* before the step, saturating at 99,999,999, and adds k to the line count,
\* saturating at 9,999.
C7_RowRemoveScores ==
    [][ (state = STATE_ROW_REMOVE /\ last_call'.fn = "do_remove_lines")
          => LET k == Cardinality(SlotRows(remove_lines)) IN
             /\ k \in 1..4
             /\ score' = Least(score + PointsFor(k) * (level + 1), 99999999)
             /\ lines' = Least(lines + k, 9999) ]_vars

\* Two rows were cleared and the score stopped at its maximum.
C7_Witness ==
    /\ last_call.fn = "do_remove_lines"
    /\ last_call.ret = 2
    /\ score = 99999999

\* C8: score, lines and level stay within 0..99,999,999, 0..9,999 and 0..9;
\* none of them decreases within a session, and they are 0 again only
\* when a new session starts.
C8_CountersBoundedAndMonotone ==
    /\ [](/\ score \in 0..99999999
          /\ lines \in 0..9999
          /\ level \in 0..9)
    /\ [][ /\ session' = session
              => (score' >= score /\ lines' >= lines /\ level' >= level)
           /\ session' # session
              => (score' = 0 /\ lines' = 0 /\ level' = 0) ]_vars

\* The line count has reached its maximum at level 9 and the score went on
\* growing.
C8_Witness ==
    /\ lines = 9999
    /\ level = 9
    /\ score = 4977500

\* The rows of a grid with all 10 cells occupied.
CompleteRows(g) == {y \in Rows : \A x \in Cols : At(g, x, y) # 0}

\* C9: get_remove_lines records exactly the complete rows, in increasing
\* order, and returns their number; so the piece that locks takes the game
\* to RowFlash exactly when a row is complete (to CreatePiece otherwise).
C9_CompleteRowsRecorded ==
    last_call.fn = "get_remove_lines" =>
        LET R == CompleteRows(grid)
            n == Cardinality(R)
        IN /\ last_call.ret = n
           /\ n <= 4
           /\ \A i \in 1..4 : IF i <= n THEN remove_lines[i] \in R
                              ELSE remove_lines[i] = NO_LINE
           /\ \A i \in 1..3 : i + 1 <= n => remove_lines[i] < remove_lines[i + 1]
           /\ (state = STATE_ROW_FLASH) <=> (R # {})
           /\ (state = STATE_CREATE_PIECE) <=> (R = {})

\* A piece has locked and completed three rows, none of them the top one.
C9_Witness ==
    /\ last_call.fn = "get_remove_lines"
    /\ state = STATE_ROW_FLASH
    /\ remove_lines = <<17, 18, 19, NO_LINE>>

\* The collision rule as the claims state it: all 4 cells inside the 10x20
\* playfield and all 4 unoccupied.
LegalPlacement(cand, g) ==
    \A c \in Cells(cand) :
        c[1] \in Cols /\ c[2] \in Rows /\ At(g, c[1], c[2]) = 0

OwnCellsCleared(g, t) ==
    [x \in 1..GRID_SIZE_X |-> [y \in 1..GRID_SIZE_Y |->
        IF <<x - 1, y - 1>> \in Cells(t) THEN 0 ELSE g[x][y]]]

\* C10: a move or a rotation whose candidate placement fails the collision
\* rule on the grid with the piece's own cells cleared leaves the piece's
\* coordinates and every grid cell as they were, and the move returns 0.
C10_RejectedCallChangesNothing ==
    [][ /\ (/\ last_call'.fn = "move"
            /\ ~LegalPlacement(MoveCandidate(tetrominoe, last_call'.arg),
                               OwnCellsCleared(grid, tetrominoe)))
           => (tetrominoe' = tetrominoe /\ grid' = grid /\ last_call'.ret = 0)
        /\ (/\ last_call'.fn = "rotate"
            /\ ~LegalPlacement(RotateCandidate(tetrominoe, current),
                               OwnCellsCleared(grid, tetrominoe)))
           => (tetrominoe' = tetrominoe /\ grid' = grid) ]_vars

\* A flat line piece resting on 4 occupied cells was just refused a move
\* down.
C10_Witness ==
    /\ last_call.fn = "move"
    /\ last_call.arg = MOVE_DOWN
    /\ last_call.ret = 0
    /\ current = PIECE_LINE
    /\ \A i \in 1..4 :
          /\ tetrominoe[i][2] = tetrominoe[1][2]
          /\ tetrominoe[i][2] + 1 \in Rows
          /\ At(grid, tetrominoe[i][1], tetrominoe[i][2] + 1) # 0

\* The occupied cells of a grid, and the 4 cells a piece type spawns on.
Occupied(g) == {c \in Cols \X Rows : At(g, c[1], c[2]) # 0}

SpawnCells(piece) == Cells(setup_tetrominoe(<<>>, piece, 4))

\* C11: the straight piece created on an empty grid leaves exactly the cells
\* of row 1, columns 4..7 occupied; and for every piece type create succeeds
\* iff its 4 spawn cells are free, marks exactly those 4 cells on success and
\* leaves the grid as it was on failure.
C11_CreateMarksTheSpawnCells ==
    /\ []((last_call.fn = "tetris" /\ current = PIECE_LINE)
            => /\ state = STATE_DESCEND
               /\ Occupied(grid) = {<<4, 1>>, <<5, 1>>, <<6, 1>>, <<7, 1>>})
    /\ [][ (state = STATE_CREATE_PIECE /\ last_call'.fn = "create")
             => LET free == SpawnCells(next) \cap Occupied(grid) = {} IN
                /\ (last_call'.ret = 1) <=> free
                /\ last_call'.ret \in {0, 1}
                /\ free => /\ Occupied(grid')
                                = Occupied(grid) \cup SpawnCells(next)
                           /\ \A c \in Occupied(grid) :
                                 At(grid', c[1], c[2]) = At(grid, c[1], c[2])
                           /\ Cells(tetrominoe') = SpawnCells(next)
                /\ ~free => grid' = grid ]_vars

\* tetris() was entered anew at a tick count that makes the first piece the
\* straight one, which it created on the empty grid.
C11_Witness ==
    /\ last_call.fn = "tetris"
    /\ session = 2
    /\ current = PIECE_LINE
    /\ At(grid, 4, 1) # 0

\* C12: a byte c stored by the keyboard interrupt and then polled without
\* interference yields press and scancode_table[c] when bit 0x80 of c is
\* clear, release and scancode_table[c & 0x7F] when it is set, the null
\* character for an unmapped code and for the empty slot, and leaves the
\* slot empty; 0x1E gives ('a', press) and 0x9E gives ('a', release).
C12_PollDecodesTheByte ==
    pc = "hlt" =>
        /\ scancode = 0
        /\ poll.reg_event = 0 => keyb_char = 0
        /\ poll.reg_event # 0 =>
              LET c == last_call.arg IN
              /\ c < 128 => /\ keyb_pressed = 1
                            /\ keyb_char = IF c < Len(scancode_table)
                                           THEN scancode_table[c + 1] ELSE 0
              /\ c >= 128 => /\ keyb_pressed = 0
                             /\ keyb_char = IF c - 128 < Len(scancode_table)
                                            THEN scancode_table[(c - 128) + 1]
                                            ELSE 0
              /\ c = 30 => (keyb_char = 97 /\ keyb_pressed = 1)
              /\ c = 158 => (keyb_char = 97 /\ keyb_pressed = 0)

\* The poll has delivered the release of a (0x9E).
C12_Witness ==
    /\ pc = "hlt"
    /\ poll.reg_event # 0
    /\ last_call.fn = "keyb_handler_c"
    /\ last_call.arg = 158
    /\ keyb_char = 97
    /\ keyb_pressed = 0
    /\ scancode = 0

\* C13: between a press of the left, right, rotate or pause key and its next
\* release the key causes at most one action, however many passes of the
\* loop run, repeated press codes arrive, other keys are pressed or released
\* and whichever states are passed through meanwhile.
C13_OneActionPerPress ==
    \A n \in DOMAIN acts : Len(acts[n]) <= 1

\* Within one session a key acts at most once between its press and its
\* release: acting sets key_pressed, which only a pass that finds every flag
\* cleared resets. What lets a held key act again is tetris() starting over
\* with its flags cleared (673-684) while the key is still down.
OneActionPerPressAndSession ==
    \A n \in DOMAIN acts :
        \A i, j \in 1..Len(acts[n]) : acts[n][i] = acts[n][j] => i = j

\* A step that is one pass of the main loop.
IsPass == pc = "run" /\ pc' \in {"hlt", "draw"}

\* The pass reaches case STATE_DESCEND of the switch: it began in Descend
\* and did not pause, or began in Paused and resumed.
DescendStep ==
    IsPass /\ state \in {STATE_DESCEND, STATE_PAUSED} /\ state' # STATE_PAUSED

\* C14: while the down key is held, every Descend step uses the soft-drop
\* delay: it moves the piece down (and sets last_move) as soon as more than
\* DROP_FALL_DELAY ticks have passed since the last move, also for a piece
\* spawned while the key is held and when another key was held first.
C14_HeldDownDropsEveryStep ==
    [][(/\ DescendStep
        /\ down' # 0
        /\ (ticks_count - last_move) % TICK_MOD > DROP_FALL_DELAY)
       => last_move' = ticks_count]_vars

\* A step of the program at the top of its loop (not an interrupt).
LoopTurn == pc = "run" /\ keyb_irqs' = keyb_irqs

\* The loop is about to poll the press of r (0x13).
RestartRequested == LoopTurn /\ quit = 0 /\ scancode = 19

\* The loop is about to test quit, which a press of q has set.
QuitRequested == LoopTurn /\ quit # 0

\* The step ends in a fresh session at the top of its loop: the frame
\* store reset, the grid empty but for a newly spawned piece, the counters
\* at their starting values, state Descend.
FreshSessionNext ==
    /\ session' = session + 1
    /\ pc' = "run"
    /\ state' = STATE_DESCEND
    /\ score' = 0 /\ lines' = 0 /\ level' = 0
    /\ fall_delay' = INITIAL_FALL_DELAY
    /\ current' \in 0..6
    /\ Occupied(grid') = SpawnCells(current')
    /\ Cells(tetrominoe') = SpawnCells(current')
    /\ quit' = 0 /\ pause' = 0 /\ left' = 0 /\ right' = 0 /\ up' = 0
    /\ down' = 0 /\ key_pressed' = 0 /\ down_pressed' = 0
    /\ ScreenModelled => /\ curr_frame' = init_frame_store
                          /\ next_frame' = SessionScreen.next_frame

C17_EveryInterruptAcknowledgedOnce ==
    last_call.fn = "irq_dispatch" =>
        /\ last_call.ret = 1
        /\ irq_handlers[last_call.arg] # NULL

\* C18: every value a read of the tick counter yields is a value the
\* counter held at some instant during the read, however the timer
\* interrupt falls; the readings never decrease.
C18_TickReadNeverTorn ==
    tick_read.stage = 2 =>
        /\ tick_read.now \in tick_read.held
        /\ tick_read.prev <= tick_read.now

\* The step leaves the piece where one row further down is not a legal
\* placement: the gravity move was rejected.
GravityRejected ==
    ~LegalPlacement(MoveCandidate(tetrominoe', MOVE_DOWN),
                    OwnCellsCleared(grid', tetrominoe'))

\* The edges out of Descend that the state switch takes.
LockEdge ==
    \/ state' = STATE_ROW_FLASH /\ GravityRejected
                                /\ CompleteRows(grid') # {}
    \/ state' = STATE_CREATE_PIECE /\ GravityRejected
                                   /\ CompleteRows(grid') = {}

Marked(v) == v % 256 = HASH

ColourOf(v) == v \div 256

\* Between g and h the marker of every cell of the rows R has been toggled,
\* the colours kept, and no other cell changed.
Toggled(g, h, R) ==
    \A x \in Cols, y \in Rows :
        IF y \in R
        THEN /\ Marked(At(h, x, y)) # Marked(At(g, x, y))
             /\ ColourOf(At(h, x, y)) = ColourOf(At(g, x, y))
        ELSE At(h, x, y) = At(g, x, y)

\* More than FLASH_DELAY ticks have passed since last_move.
FlashDue == (ticks_count - last_move) % TICK_MOD > FLASH_DELAY

\* C20: a visit to RowFlash begins with the flash counter at 0; it toggles
\* the marker on every pending row 4 times, each toggle more than 10 ticks
\* after the one before (or after the entry), and then, again more than 10
\* ticks later, goes to RowRemove with the same pending rows; the pending
\* rows are complete all the while.
C20_RowFlashTogglesFourTimes ==
    /\ [](state \in {STATE_ROW_FLASH, STATE_ROW_REMOVE} =>
            /\ flash_lines_count \in 0..FLASH_CYCLES
            /\ SlotRows(remove_lines) # {}
            /\ SlotRows(remove_lines) \subseteq CompleteRows(grid)
            /\ \A y \in SlotRows(remove_lines), x \in Cols :
                  Marked(At(grid, x, y)) <=> flash_lines_count % 2 = 1)
    /\ [][session' = session =>
            /\ (state # STATE_ROW_FLASH /\ state' = STATE_ROW_FLASH) =>
                  /\ flash_lines_count' = 0
                  /\ last_move' = ticks_count
            /\ (state = STATE_ROW_FLASH /\ state' = STATE_ROW_FLASH) =>
                  \/ UNCHANGED <<grid, remove_lines, flash_lines_count,
                                 last_move>>
                  \/ /\ FlashDue
                     /\ flash_lines_count < FLASH_CYCLES
                     /\ flash_lines_count' = flash_lines_count + 1
                     /\ Toggled(grid, grid', SlotRows(remove_lines))
                     /\ remove_lines' = remove_lines
                     /\ last_move' = ticks_count
            /\ (state = STATE_ROW_FLASH /\ state' # STATE_ROW_FLASH) =>
                  /\ FlashDue
                  /\ flash_lines_count = FLASH_CYCLES
                  /\ state' = STATE_ROW_REMOVE
                  /\ flash_lines_count' = 0
                  /\ UNCHANGED <<grid, remove_lines>>]_vars

\* A visit to RowFlash has ended: 4 toggles and the wait after them.
C20_Witness ==
    /\ state = STATE_ROW_REMOVE
    /\ flash_lines_count = 0
    /\ timer_irqs >= (FLASH_CYCLES + 1) * (FLASH_DELAY + 1)
    /\ \A y \in SlotRows(remove_lines), x \in Cols :
          At(grid, x, y) % 256 = BLANK

\* C21: while the state is Paused the grid, the cells of the active piece,
\* the removal set, score, lines, level and fall delay do not change,
\* whatever keys are pressed and however many ticks pass.  Within the
\* session only the pass that polls a press of p leaves Paused, and only if
\* the release of the pausing press was polled before (no action of p
\* stands since its last release); that pass sets the state to Descend and
\* goes on to the Descend case of the switch, which may lock the piece.
\* (A restart ends the session, whatever its state: see C15.)
C21_PausedFreezesTheGame ==
    [][state = STATE_PAUSED =>
          \/ session' = session + 1 /\ RestartRequested
          \/ /\ session' = session
             /\ UNCHANGED <<score, lines, level, fall_delay>>
             /\ state' = STATE_PAUSED =>
                   UNCHANGED <<grid, tetrominoe, remove_lines, current>>
             /\ state' # STATE_PAUSED =>
                   /\ IsPass
                   /\ keyb_char' = CH_p
                   /\ keyb_pressed' # 0
                   /\ pause = 0
                   /\ pause' # 0
                   /\ acts.pause = <<>>
                   /\ acts'.pause = <<session>>
                   /\ state' = STATE_DESCEND \/ LockEdge]_vars

\* A pause has lasted through a press of a and a tick, and a press of p,
\* polled after the release of the pausing press, has ended it.
C21_Witness ==
    /\ state = STATE_DESCEND
    /\ acts.pause = <<session>>
    /\ acts.left = <<>>
    /\ left # 0
    /\ pause # 0
    /\ key_pressed # 0
    /\ keyb_char = CH_p
    /\ keyb_pressed # 0
    /\ timer_irqs > 0

\* C22: in every state level = min(9, lines div 10) and fall_delay =
\* 90 - 10 * level, so the fall delay is never negative; within a session
\* the level changes only in a RowRemove step, by exactly one, in the step
\* in which lines first reaches level * 10 + 10, and never past 9.
C22_LevelFollowsLines ==
    /\ [](/\ level = Least(9, lines \div 10)
          /\ fall_delay = 90 - (10 * level)
          /\ fall_delay >= 0)
    /\ [][(session' = session /\ level' # level) =>
            /\ state = STATE_ROW_REMOVE
            /\ last_call'.fn = "do_remove_lines"
            /\ level' = level + 1
            /\ level' <= 9
            /\ lines < (level * 10) + 10
            /\ lines' >= (level * 10) + 10]_vars

\* Four rows were removed at once and took lines from 88 to 92: the level
\* went from 8 to 9, its maximum, and the fall delay to 0.
C22_Witness ==
    /\ last_call.fn = "do_remove_lines"
    /\ last_call.ret = 4
    /\ lines = 92
    /\ level = 9
    /\ fall_delay = 0

\* C23: in every state at most 4 rows of the grid are complete, and they
\* are complete only from the lock that completes them to the RowRemove
\* step that removes them: none is left by RowRemove, none lies under a
\* piece that is still to lock.  So get_remove_lines never counts more than
\* 4 rows and never stores past remove_lines[3].
C23_AtMostFourCompleteRows ==
    /\ [](/\ Cardinality(CompleteRows(grid)) <= 4
          /\ state \in {STATE_CREATE_PIECE, STATE_GAME_OVER}
                => CompleteRows(grid) = {}
          /\ state \in {STATE_DESCEND, STATE_PAUSED}
                => CompleteRows(OwnCellsCleared(grid, tetrominoe)) = {}
          /\ last_call.fn = "get_remove_lines"
                => (last_call.ret <= 4 /\ last_call.arg = FALSE))
    /\ [][(IsPass /\ state = STATE_ROW_REMOVE) =>
            /\ CompleteRows(grid) # {}
            /\ CompleteRows(grid') = {}]_vars

\* A lock has completed four rows at once, under a stack that reaches the
\* top row, and RowRemove has removed them.
C23_Witness ==
    /\ last_call.fn = "do_remove_lines"
    /\ last_call.ret = 4
    /\ state = STATE_CREATE_PIECE
    /\ At(grid, 0, 0) # 0
    /\ CompleteRows(grid) = {}

\* The topmost row a placement reaches (the lowest y).
TopRow(t) == Min4(t[1][2], t[2][2], t[3][2], t[4][2])

\* The placement n rows further down.
Lowered(t, n) ==
    <<<<t[1][1], t[1][2] + n>>, <<t[2][1], t[2][2] + n>>,
      <<t[3][1], t[3][2] + n>>, <<t[4][1], t[4][2] + n>>>>

\* The pass made the gravity move and it was accepted.
GravityAccepted ==
    IsPass /\ last_call'.fn = "move" /\ last_call'.arg = MOVE_DOWN
           /\ last_call'.ret = 1

\* No key acted in the step.
NoKeyActed == \A n \in DOMAIN acts : acts'[n] = <<>> \/ acts'[n] = acts[n]

C25_PollReportsOneEvent ==
    (pc = "hlt" /\ poll.char_event # 0 /\ poll.flag_event # 0)
        => poll.flag_event = poll.char_event

=============================================================================
